---- MODULE Spec2Model ----
(***************************************************************************)
(* Model registry of the AI service: the metadata model (metadata.py), the *)
(* filesystem-backed version manager (version_manager.py), the config      *)
(* loader (config_loader.py) and the in-memory model manager               *)
(* (model_manager.py).                                                     *)
(*                                                                         *)
(* Strings that the code formats into keys and parses back are sequences   *)
(* of one-character strings, so that f"{name}:{version}" and split(":", 1) *)
(* are computed as the code computes them.  An optional value is << >>     *)
(* (None) or <<x>>.  Time is an integer clock; a float such as 0.7 is the  *)
(* integer 7 (tenths).                                                     *)
(***************************************************************************)
EXTENDS Integers, Sequences, FiniteSets, TLC

VARIABLES
    metaFile,      \* <base>/<type>/<name>/<version>/metadata.json, per directory
    registry,      \* <base>/<type>/registry.json: the ordered "models" object
    artFile,       \* the artifact files, by path
    cache,         \* ModelVersionManager._metadata_cache
    peerCache,     \* the _metadata_cache of a second ModelVersionManager over the same base path
    configData,    \* ModelConfigLoader.config_data
    loadedModels,  \* ModelManager._loaded_models
    modelConfigs,  \* ModelManager._model_configs
    loadTimes,     \* ModelManager._load_times
    loadingLocks,  \* ModelManager._loading_locks: key -> lock object
    lockHolder,    \* lock object -> the thread holding it (0: free)
    clock,         \* datetime.now()
    pc,            \* per thread: position in the call it is executing
    frame,         \* per thread: the locals of that call
    ret,           \* per thread, its last completed call: operation, arguments, result
    prev,          \* the call completed before the last one (where it is tracked)
    calls,         \* the number of calls made so far
    e2e,           \* progress through the end-to-end sequence of calls
    inferenceStats, \* ModelManager._inference_stats: key -> samples
    lruCache,      \* the lru_cache of each processing entry point, least recently used first
    metrics,       \* metrics_service: the inference events recorded, in order
    asked,         \* per entry point: the arguments of the calls made so far, in order
    recorded       \* per key: the samples recorded since its samples were last dropped, in order

vars == <<calls, metaFile, registry, artFile, cache, peerCache, configData, loadedModels,
          modelConfigs, loadTimes, loadingLocks, lockHolder, clock, pc, frame,
          ret, prev, e2e, inferenceStats, lruCache, metrics, asked, recorded>>

vmVars == <<metaFile, registry, artFile, cache, peerCache>>
mmVars == <<loadedModels, modelConfigs, loadTimes>>
lockVars == <<loadingLocks, lockHolder>>
procVars == <<inferenceStats, lruCache, metrics, asked, recorded>>

-----------------------------------------------------------------------------
(* Bounds of the model *)

NThreads == 2
MaxClock == 1
MaxCalls == 4

-----------------------------------------------------------------------------
(* metadata.py: enumerations *)

TASK_PARSER == "task_parser"
PRIORITIZER == "prioritizer"
INSIGHTS == "insights"
ModelType == {TASK_PARSER, PRIORITIZER, INSIGHTS}

AVAILABLE == "available"
LOADING == "loading"
ERROR == "error"
DEPRECATED == "deprecated"
ModelStatus == {AVAILABLE, LOADING, ERROR, DEPRECATED}

None == << >>
Some(x) == <<x>>
IsNone(o) == Len(o) = 0
Val(o) == o[1]

-----------------------------------------------------------------------------
(* Strings *)

Colon == ":"

\* Code points of the characters the model's strings use (Python compares
\* strings by code point).
Ord(c) ==
    CASE c = "0" -> 48
      [] c = "1" -> 49
      [] c = "2" -> 50
      [] c = ":" -> 58
      [] c = "d" -> 100
      [] c = "v" -> 118
      [] c = "x" -> 120
      [] c = "y" -> 121

RECURSIVE StrLess(_, _)
StrLess(a, b) ==
    IF Len(b) = 0 THEN FALSE
    ELSE IF Len(a) = 0 THEN TRUE
    ELSE IF Ord(Head(a)) # Ord(Head(b)) THEN Ord(Head(a)) < Ord(Head(b))
    ELSE StrLess(Tail(a), Tail(b))

\* The index of the first ":" of s, 0 if there is none.
RECURSIVE FindColon(_, _)
FindColon(s, i) ==
    IF i > Len(s) THEN 0
    ELSE IF s[i] = Colon THEN i
    ELSE FindColon(s, i + 1)

\* The index of the last ":" of s, 0 if there is none.
RECURSIVE FindLastColon(_, _)
FindLastColon(s, i) ==
    IF i < 1 THEN 0
    ELSE IF s[i] = Colon THEN i
    ELSE FindLastColon(s, i - 1)

\* key.split(":", 1) of a key that holds a ":".
SplitFirst(s) ==
    LET i == FindColon(s, 1)
    IN  <<SubSeq(s, 1, i - 1), SubSeq(s, i + 1, Len(s))>>

\* key.rsplit(":", 1) of a key that holds a ":".
RSplitLast(s) ==
    LET i == FindLastColon(s, Len(s))
    IN  <<SubSeq(s, 1, i - 1), SubSeq(s, i + 1, Len(s))>>

\* f"{name}:{version}"
RegistryKey(name, version) == name \o <<Colon>> \o version

\* f"{model_type.value}:{name}:{version}"
get_model_key(model_type, name, version) ==
    <<model_type>> \o <<Colon>> \o name \o <<Colon>> \o version

\* sorted(versions, reverse=True): insertion into a descending list.
RECURSIVE InsertDesc(_, _)
InsertDesc(v, s) ==
    IF Len(s) = 0 THEN <<v>>
    ELSE IF StrLess(Head(s), v) THEN <<v>> \o s
    ELSE <<Head(s)>> \o InsertDesc(v, Tail(s))

RECURSIVE SortedReverse(_)
SortedReverse(s) ==
    IF Len(s) = 0 THEN << >>
    ELSE InsertDesc(Head(s), SortedReverse(Tail(s)))

-----------------------------------------------------------------------------
(* Dictionaries: functions with a finite domain *)

EmptyDict == << >>
DictSet(d, k, v) == [x \in DOMAIN d \cup {k} |-> IF x = k THEN v ELSE d[x]]
DictDel(d, k) == [x \in DOMAIN d \ {k} |-> d[x]]

-----------------------------------------------------------------------------
(* Artifacts, paths and file contents of the model *)

NameD == <<"d">>
NameDX == <<"d", ":", "x">>
V1 == <<"v", "1">>
V2 == <<"v", "2">>
V10 == <<"v", "1", "0">>
VY == <<"y">>
VXY == <<"x", ":", "y">>

\* (model_type, name, version): a version directory <base>/<type>/<name>/<version>.
ParserV1 == <<TASK_PARSER, NameD, V1>>
PrioV1 == <<PRIORITIZER, NameD, V1>>
ParserV2 == <<TASK_PARSER, NameD, V2>>
ParserV10 == <<TASK_PARSER, NameD, V10>>
ParserDXY == <<TASK_PARSER, NameDX, VY>>
ParserDxy == <<TASK_PARSER, NameD, VXY>>

AllArts == {ParserV1, PrioV1, ParserV2, ParserV10, ParserDXY, ParserDxy}

\* A caller's own file of an artifact, and the file the config loader
\* synthesizes inside the version directory (<dir>/model.json).
ExtPath(a) == <<"ext", a>>
MockPath(a) == <<"mock", a>>
AllPaths == {ExtPath(a) : a \in AllArts} \cup {MockPath(a) : a \in AllArts}

Bytes0 == <<"a", "b">>
BytesFlipped == <<"a", "c">>
BytesLonger == <<"a", "b", "c">>
MockBytes == <<"m">>
Contents == {Bytes0, BytesFlipped, BytesLonger}

\* Configuration values: a number n is [kind "num", items <<n>>]; a string,
\* a list, a tuple and an object json cannot encode carry their items.
Num(n) == [kind |-> "num", items |-> <<n>>]
Str(x) == [kind |-> "str", items |-> x]
ListOf(xs) == [kind |-> "list", items |-> xs]
TupleOf(xs) == [kind |-> "tuple", items |-> xs]

CfgEmpty == EmptyDict
CfgOk == [temperature |-> Num(7)]
CfgHot == [temperature |-> Num(25)]
CfgTuple == [stop |-> TupleOf(<<1, 2>>)]
CfgList == [stop |-> ListOf(<<1, 2>>)]

-----------------------------------------------------------------------------
(* metadata.py *)

HashLen == 64

\* hashlib.sha256 of the bytes: a digest of HashLen hex characters that is
\* different for different contents.
Sha256(content) == [hexlen |-> HashLen, digest |-> content]

\* calculate_file_hash: None stands for the ValueError it raises.
calculate_file_hash(files, path) ==
    IF IsNone(files[path]) THEN None ELSE Some(Sha256(Val(files[path])))

\* ModelMetadata.validate_file_hash
validate_file_hash(h) == h.hexlen = HashLen

\* create_model_metadata: None stands for the ValueError it raises.
create_model_metadata(files, now, name, version, model_type, file_path, model_source, memory_requirement_mb, config) ==
    IF IsNone(files[file_path]) THEN None
    ELSE Some([name |-> name,
               version |-> version,
               model_type |-> model_type,
               file_path |-> file_path,
               file_size_bytes |-> Len(Val(files[file_path])),
               file_hash |-> Sha256(Val(files[file_path])),
               model_source |-> model_source,
               memory_requirement_mb |-> memory_requirement_mb,
               created_at |-> now,
               updated_at |-> now,
               status |-> AVAILABLE,
               config |-> config])

\* json.dump(..., default=str) of one value: a tuple is written as an array,
\* an object json cannot encode as its str().
JsonDumpValue(v) ==
    CASE v.kind = "tuple" -> [kind |-> "list", items |-> v.items]
      [] v.kind = "object" -> [kind |-> "str", items |-> v.items]
      [] OTHER -> v

\* str(datetime) as json.dump(default=str) writes it, datetime.isoformat(),
\* and datetime.fromisoformat, which reads both.
StrOfDatetime(t) == <<"YYYY-MM-DD HH:MM:SS", t>>
IsoFormat(t) == <<"YYYY-MM-DDTHH:MM:SS", t>>
FromIsoFormat(x) == x[2]

\* json.dump(metadata.dict(), f, indent=2, default=str)
DumpMetadata(md) ==
    [md EXCEPT !.created_at = StrOfDatetime(md.created_at),
               !.updated_at = StrOfDatetime(md.updated_at),
               !.config = [k \in DOMAIN md.config |-> JsonDumpValue(md.config[k])]]

\* json.load, the two fromisoformat conversions and ModelMetadata.from_dict;
\* None stands for the exception of a failed validation.
LoadMetadata(data) ==
    IF ~validate_file_hash(data.file_hash) THEN None
    ELSE Some([data EXCEPT !.created_at = FromIsoFormat(data.created_at),
                           !.updated_at = FromIsoFormat(data.updated_at)])

DefaultTemperature == 7
DefaultTopP == 9
MaxTemperature == 20
MaxTopP == 10

\* pydantic's float field: only a number is accepted.
IsFloat(v) == v.kind = "num"

\* ModelConfig.validate_temperature, validate_top_p (True: accepted)
validate_temperature(v) == ~(v <= 0 \/ v > MaxTemperature)
validate_top_p(v) == ~(v <= 0 \/ v > MaxTopP)

\* ModelConfig(**config_data) for the identity and the knobs given; None
\* stands for the ValidationError.
ModelConfig(model_type, name, version, knobs) ==
    LET tOk == "temperature" \in DOMAIN knobs => IsFloat(knobs["temperature"])
        pOk == "top_p" \in DOMAIN knobs => IsFloat(knobs["top_p"])
        t == IF "temperature" \in DOMAIN knobs
             THEN knobs["temperature"].items[1] ELSE DefaultTemperature
        p == IF "top_p" \in DOMAIN knobs
             THEN knobs["top_p"].items[1] ELSE DefaultTopP
    IN  IF model_type \notin ModelType THEN None
        ELSE IF ~tOk \/ ~pOk THEN None
        ELSE IF ~validate_temperature(t) \/ ~validate_top_p(p) THEN None
        ELSE Some([model_type |-> model_type, name |-> name,
                   version |-> version, temperature |-> t, top_p |-> p])

-----------------------------------------------------------------------------
(* version_manager.py.  The operations are functions of the version        *)
(* manager's state s = [meta, reg, files, cache] (the three kinds of files *)
(* and the metadata cache) that return the new state and the result.       *)

VM == [meta |-> metaFile, reg |-> registry, files |-> artFile, cache |-> cache]

\* The ordered "models" object of a registry file: a sequence of
\* [key, info], in insertion order as json and dict keep it.
OdKeys(od) == {od[i].key : i \in DOMAIN od}
OdHas(od, k) == k \in OdKeys(od)
OdIndex(od, k) == CHOOSE i \in DOMAIN od : od[i].key = k
OdGet(od, k) == od[OdIndex(od, k)].info
OdSet(od, k, info) ==
    IF OdHas(od, k)
    THEN [od EXCEPT ![OdIndex(od, k)] = [key |-> k, info |-> info]]
    ELSE Append(od, [key |-> k, info |-> info])
OdDel(od, k) ==
    LET i == OdIndex(od, k)
    IN  SubSeq(od, 1, i - 1) \o SubSeq(od, i + 1, Len(od))

\* get_model_directory: the version directory, and whether it exists (it
\* holds metadata.json or the synthesized model.json).
get_model_directory(model_type, name, version) == <<model_type, name, version>>
DirExists(s, dir) ==
    /\ dir \in AllArts
    /\ ~IsNone(s.meta[dir]) \/ ~IsNone(s.files[MockPath(dir)])

\* _load_registry
LoadRegistry(s, model_type) == s.reg[model_type]

\* The registry entry register_model writes for a metadata object.
RegistryInfo(md) ==
    [name |-> md.name,
     version |-> md.version,
     status |-> md.status,
     created_at |-> IsoFormat(md.created_at),
     updated_at |-> IsoFormat(md.updated_at),
     file_path |-> md.file_path,
     memory_requirement_mb |-> md.memory_requirement_mb]

\* register_model
register_model(s, md) ==
    LET dir == get_model_directory(md.model_type, md.name, md.version)
        model_key == RegistryKey(md.name, md.version)
        reg == LoadRegistry(s, md.model_type)
    IN  [st |-> [s EXCEPT !.meta[dir] = Some(DumpMetadata(md)),
                          !.reg[md.model_type] = OdSet(reg, model_key, RegistryInfo(md)),
                          !.cache = DictSet(s.cache, model_key, md)],
         res |-> TRUE]

\* get_model_metadata finding nothing, whatever is cached or on disk
get_model_metadata_absent(s, model_type, name, version) == [st |-> s, res |-> None]

\* get_model_metadata
get_model_metadata(s, model_type, name, version) ==
    LET model_key == RegistryKey(name, version)
        dir == get_model_directory(model_type, name, version)
    IN  IF model_key \in DOMAIN s.cache
        THEN [st |-> s, res |-> Some(s.cache[model_key])]
        ELSE IF dir \notin AllArts \/ IsNone(s.meta[dir])
        THEN [st |-> s, res |-> None]
        ELSE LET md == LoadMetadata(Val(s.meta[dir]))
             IN  IF IsNone(md) THEN [st |-> s, res |-> None]
                 ELSE [st |-> [s EXCEPT !.cache = DictSet(s.cache, model_key, Val(md))],
                       res |-> md]

\* The versions list_versions collects, in registry order.
RECURSIVE VersionsOf(_, _)
VersionsOf(od, name) ==
    IF Len(od) = 0 THEN << >>
    ELSE LET nv == SplitFirst(Head(od).key)
         IN  (IF nv[1] = name THEN <<nv[2]>> ELSE << >>) \o VersionsOf(Tail(od), name)

\* list_versions
list_versions(s, model_type, name) ==
    SortedReverse(VersionsOf(LoadRegistry(s, model_type), name))

\* get_latest_version
get_latest_version(s, model_type, name) ==
    LET versions == list_versions(s, model_type, name)
    IN  IF Len(versions) > 0 THEN Some(versions[1]) ELSE None

\* delete_model_version
delete_model_version(s, model_type, name, version) ==
    LET reg == LoadRegistry(s, model_type)
        model_key == RegistryKey(name, version)
        dir == get_model_directory(model_type, name, version)
        s1 == [s EXCEPT !.reg[model_type] = OdDel(reg, model_key)]
        s2 == IF DirExists(s1, dir)
              THEN [s1 EXCEPT !.meta[dir] = None, !.files[MockPath(dir)] = None]
              ELSE s1
    IN  IF ~OdHas(reg, model_key) THEN [st |-> s, res |-> FALSE]
        ELSE [st |-> [s2 EXCEPT !.cache = DictDel(s2.cache, model_key)], res |-> TRUE]

\* update_model_status.  The metadata object is the cached one and is
\* changed in place, before the files are written.
update_model_status(s, model_type, name, version, status, now) ==
    LET got == get_model_metadata(s, model_type, name, version)
        model_key == RegistryKey(name, version)
        dir == get_model_directory(model_type, name, version)
        md == [Val(got.res) EXCEPT !.status = status, !.updated_at = now]
        s1 == [got.st EXCEPT !.cache = DictSet(got.st.cache, model_key, md)]
        reg == LoadRegistry(s1, model_type)
        info == [OdGet(reg, model_key) EXCEPT !.status = status,
                                              !.updated_at = IsoFormat(md.updated_at)]
        s2 == [s1 EXCEPT !.meta[dir] = Some(DumpMetadata(md))]
        s3 == IF OdHas(reg, model_key)
              THEN [s2 EXCEPT !.reg[model_type] = OdSet(reg, model_key, info)]
              ELSE s2
    IN  IF IsNone(got.res) THEN [st |-> got.st, res |-> FALSE]
        ELSE IF ~DirExists(s1, dir) THEN [st |-> s1, res |-> FALSE]
        ELSE [st |-> s3, res |-> TRUE]

\* validate_model_integrity: res is the pair (ok, reason).
validate_model_integrity(s, model_type, name, version) ==
    LET got == get_model_metadata(s, model_type, name, version)
        md == Val(got.res)
        f == got.st.files[md.file_path]
    IN  IF IsNone(got.res)
        THEN [st |-> got.st, res |-> <<FALSE, "Model metadata not found">>]
        ELSE IF IsNone(f)
        THEN [st |-> got.st, res |-> <<FALSE, "Model file not found">>]
        ELSE IF Len(Val(f)) # md.file_size_bytes
        THEN [st |-> got.st, res |-> <<FALSE, "File size mismatch">>]
        ELSE IF calculate_file_hash(got.st.files, md.file_path) # Some(md.file_hash)
        THEN [st |-> got.st, res |-> <<FALSE, "File hash mismatch">>]
        ELSE [st |-> got.st, res |-> <<TRUE, "Model integrity validated">>]

\* dict.update: the entries of e replace and extend those of d
DictUpdate(d, e) == [k \in DOMAIN d \cup DOMAIN e |-> IF k \in DOMAIN e THEN e[k] ELSE d[k]]

\* get_model_config: the stored config is merged over the identity
get_model_config(s, model_type, name, version) ==
    LET got == get_model_metadata(s, model_type, name, version)
        config_data == DictUpdate([model_type |-> Str(model_type), name |-> Str(name), version |-> Str(version)], Val(got.res).config)
    IN  IF IsNone(got.res) THEN [st |-> got.st, res |-> None]
        ELSE [st |-> got.st,
              res |-> ModelConfig(config_data.model_type.items, config_data.name.items, config_data.version.items, config_data)]

-----------------------------------------------------------------------------
(* model_manager.py *)

Threads == 1 .. NThreads
Main == 1

SetVM(s) ==
    /\ metaFile' = s.meta
    /\ registry' = s.reg
    /\ artFile' = s.files
    /\ cache' = s.cache
    /\ peerCache' = peerCache

NoCall == [op |-> "none", args |-> << >>, res |-> FALSE]
IdleFrame == [model_type |-> TASK_PARSER, name |-> << >>, version |-> None, model_key |-> << >>, lock |-> << >>, metadata |-> None, config |-> None, result |-> FALSE]

AllIdle == \A t \in Threads : pc[t] = "idle"

\* is_model_loaded
is_model_loaded(model_type, name, version) ==
    get_model_key(model_type, name, version) \in DOMAIN loadedModels

Goto(t, label) == pc' = [pc EXCEPT ![t] = label]
Finish(t, result) ==
    /\ pc' = [pc EXCEPT ![t] = "return"]
    /\ frame' = [frame EXCEPT ![t].result = result]

\* A thread calls load_model(model_type, name, version); version may be None.
LoadCall(t, model_type, name, version) ==
    /\ pc[t] = "idle"
    /\ pc' = [pc EXCEPT ![t] = "resolve"]
    /\ frame' = [frame EXCEPT ![t] = [IdleFrame EXCEPT !.model_type = model_type, !.name = name, !.version = version]]
    /\ ret' = [ret EXCEPT ![t] = NoCall]
    /\ e2e' = IF e2e = 1 /\ t = Main /\ <<model_type, name>> = <<TASK_PARSER, NameD>> /\ IsNone(version) THEN e2e ELSE 0
    /\ UNCHANGED <<procVars, vmVars, mmVars, lockVars, configData, clock>>

\* load_model, lines 83-89: the latest version when none is given.
LoadResolve(t) ==
    /\ pc[t] = "resolve"
    /\ LET f == frame[t]
           v == IF IsNone(f.version) THEN get_latest_version(VM, f.model_type, f.name) ELSE f.version
       IN  IF IsNone(v)
           THEN Finish(t, FALSE)
           ELSE /\ Goto(t, "check_loaded")
                /\ frame' = [frame EXCEPT ![t].version = v, ![t].model_key = get_model_key(f.model_type, f.name, Val(v))]
    /\ UNCHANGED <<procVars, vmVars, mmVars, lockVars, configData, clock, ret, e2e>>

\* The first check of load_model answering false for a key already loaded.
LoadCheckLoadedRefusing(t) ==
    /\ pc[t] = "check_loaded"
    /\ IF frame[t].model_key \in DOMAIN loadedModels
       THEN Finish(t, FALSE)
       ELSE Goto(t, "check_lock") /\ UNCHANGED frame
    /\ UNCHANGED <<procVars, vmVars, mmVars, lockVars, configData, clock, ret, e2e>>

\* lines 91-94: already loaded
LoadCheckLoaded(t) ==
    /\ pc[t] = "check_loaded"
    /\ IF frame[t].model_key \in DOMAIN loadedModels
       THEN Finish(t, TRUE)
       ELSE Goto(t, "check_lock") /\ UNCHANGED frame
    /\ UNCHANGED <<procVars, vmVars, mmVars, lockVars, configData, clock, ret, e2e>>

\* line 97: if model_key not in self._loading_locks
LoadCheckLock(t) ==
    /\ pc[t] = "check_lock"
    /\ IF frame[t].model_key \notin DOMAIN loadingLocks
       THEN Goto(t, "create_lock")
       ELSE Goto(t, "get_lock")
    /\ UNCHANGED <<procVars, vmVars, mmVars, lockVars, configData, clock, frame, ret, e2e>>

\* line 98: self._loading_locks[model_key] = threading.Lock(), a new lock
\* object, whatever the dictionary holds by now.
LoadCreateLock(t) ==
    /\ pc[t] = "create_lock"
    /\ LET lock == <<t, frame[t].model_key>>
       IN  /\ loadingLocks' = DictSet(loadingLocks, frame[t].model_key, lock)
           /\ lockHolder' = DictSet(lockHolder, lock, 0)
    /\ Goto(t, "get_lock")
    /\ UNCHANGED <<procVars, vmVars, mmVars, configData, clock, frame, ret, e2e>>

\* line 100: the lock object self._loading_locks[model_key] is read ...
LoadGetLock(t) ==
    /\ pc[t] = "get_lock"
    /\ frame' = [frame EXCEPT ![t].lock = loadingLocks[frame[t].model_key]]
    /\ Goto(t, "acquire")
    /\ UNCHANGED <<procVars, vmVars, mmVars, lockVars, configData, clock, ret, e2e>>

\* ... and acquired once it is free.
LoadAcquire(t) ==
    /\ pc[t] = "acquire"
    /\ lockHolder[frame[t].lock] = 0
    /\ lockHolder' = [lockHolder EXCEPT ![frame[t].lock] = t]
    /\ Goto(t, "recheck")
    /\ UNCHANGED <<procVars, vmVars, mmVars, loadingLocks, configData, clock, frame, ret, e2e>>

Leave(t, result) ==
    /\ pc' = [pc EXCEPT ![t] = "release"]
    /\ frame' = [frame EXCEPT ![t].result = result]

\* lines 101-103: double-check after acquiring the lock
LoadRecheck(t) ==
    /\ pc[t] = "recheck"
    /\ IF frame[t].model_key \in DOMAIN loadedModels
       THEN Leave(t, TRUE)
       ELSE Goto(t, "get_metadata") /\ UNCHANGED frame
    /\ UNCHANGED <<procVars, vmVars, mmVars, lockVars, configData, clock, ret, e2e>>

\* lines 107-110
LoadGetMetadata(t) ==
    /\ pc[t] = "get_metadata"
    /\ LET f == frame[t]
           got == get_model_metadata(VM, f.model_type, f.name, Val(f.version))
       IN  /\ SetVM(got.st)
           /\ IF IsNone(got.res)
              THEN Leave(t, FALSE)
              ELSE /\ Goto(t, "validate")
                   /\ frame' = [frame EXCEPT ![t].metadata = got.res]
    /\ UNCHANGED <<procVars, mmVars, lockVars, configData, clock, ret, e2e>>

\* lines 113-117: on a failed integrity check the status becomes ERROR
LoadValidate(t) ==
    /\ pc[t] = "validate"
    /\ LET f == frame[t]
           chk == validate_model_integrity(VM, f.model_type, f.name, Val(f.version))
           err == update_model_status(chk.st, f.model_type, f.name, Val(f.version), ERROR, clock)
       IN  IF ~chk.res[1]
           THEN SetVM(err.st) /\ Leave(t, FALSE)
           ELSE SetVM(chk.st) /\ Goto(t, "set_loading") /\ UNCHANGED frame
    /\ UNCHANGED <<procVars, mmVars, lockVars, configData, clock, ret, e2e>>

\* line 120
LoadSetLoading(t) ==
    /\ pc[t] = "set_loading"
    /\ LET f == frame[t]
       IN  SetVM(update_model_status(VM, f.model_type, f.name, Val(f.version), LOADING, clock).st)
    /\ Goto(t, "get_config")
    /\ UNCHANGED <<procVars, mmVars, lockVars, configData, clock, frame, ret, e2e>>

\* lines 123-126
LoadGetConfig(t) ==
    /\ pc[t] = "get_config"
    /\ LET f == frame[t]
           got == get_model_config(VM, f.model_type, f.name, Val(f.version))
       IN  /\ SetVM(got.st)
           /\ IF IsNone(got.res)
              THEN Leave(t, FALSE)
              ELSE /\ Goto(t, "store_model")
                   /\ frame' = [frame EXCEPT ![t].config = got.res]
    /\ UNCHANGED <<procVars, mmVars, lockVars, configData, clock, ret, e2e>>

\* lines 130-141: the record of the loaded model
LoadStoreModel(t) ==
    /\ pc[t] = "store_model"
    /\ LET f == frame[t]
           mock_model == [name |-> f.name, version |-> Val(f.version), type |-> f.model_type, loaded_at |-> clock, memory_requirement_mb |-> Val(f.metadata).memory_requirement_mb, config |-> Val(f.config), status |-> "loaded"]
       IN  loadedModels' = DictSet(loadedModels, f.model_key, mock_model)
    /\ Goto(t, "store_config")
    /\ UNCHANGED <<procVars, vmVars, modelConfigs, loadTimes, lockVars, configData, clock, frame, ret, e2e>>

\* line 142
LoadStoreConfig(t) ==
    /\ pc[t] = "store_config"
    /\ modelConfigs' = DictSet(modelConfigs, frame[t].model_key, Val(frame[t].config))
    /\ Goto(t, "store_time")
    /\ UNCHANGED <<procVars, vmVars, loadedModels, loadTimes, lockVars, configData, clock, frame, ret, e2e>>

\* line 143
LoadStoreTime(t) ==
    /\ pc[t] = "store_time"
    /\ loadTimes' = DictSet(loadTimes, frame[t].model_key, clock)
    /\ Goto(t, "set_available")
    /\ UNCHANGED <<procVars, vmVars, loadedModels, modelConfigs, lockVars, configData, clock, frame, ret, e2e>>

\* The last step of the load body without its update of the status.
LoadSetAvailableKeepingStatus(t) ==
    /\ pc[t] = "set_available"
    /\ Leave(t, TRUE)
    /\ UNCHANGED <<procVars, vmVars, mmVars, lockVars, configData, clock, ret, e2e>>

\* lines 146-157
LoadSetAvailable(t) ==
    /\ pc[t] = "set_available"
    /\ LET f == frame[t]
       IN  SetVM(update_model_status(VM, f.model_type, f.name, Val(f.version), AVAILABLE, clock).st)
    /\ Leave(t, TRUE)
    /\ UNCHANGED <<procVars, mmVars, lockVars, configData, clock, ret, e2e>>

\* The end of the with block leaving the lock held.
LoadReleaseKeepingLock(t) ==
    /\ pc[t] = "release"
    /\ Goto(t, "return")
    /\ UNCHANGED <<procVars, vmVars, mmVars, lockVars, configData, clock, frame, ret, e2e>>

\* The end of the with block: the lock is released.
LoadRelease(t) ==
    /\ pc[t] = "release"
    /\ lockHolder' = [lockHolder EXCEPT ![frame[t].lock] = 0]
    /\ Goto(t, "return")
    /\ UNCHANGED <<procVars, vmVars, mmVars, loadingLocks, configData, clock, frame, ret, e2e>>

\* load_model returns; the call is recorded with the version it resolved and
\* the metadata it fetched (None when it returned before the load body).
LoadReturn(t) ==
    /\ pc[t] = "return"
    /\ Goto(t, "idle")
    /\ ret' = [ret EXCEPT ![t] = [op |-> "load_model", args |-> <<frame[t].model_type, frame[t].name, frame[t].version, frame[t].metadata>>, res |-> frame[t].result]]
    /\ frame' = [frame EXCEPT ![t] = IdleFrame]
    /\ e2e' = IF e2e = 1 /\ t = Main THEN 2 ELSE 0
    /\ UNCHANGED <<procVars, vmVars, mmVars, lockVars, configData, clock>>

LoadStep(t) ==
    \/ LoadResolve(t)
    \/ LoadCheckLoaded(t)
    \/ LoadCheckLock(t)
    \/ LoadCreateLock(t)
    \/ LoadGetLock(t)
    \/ LoadAcquire(t)
    \/ LoadRecheck(t)
    \/ LoadGetMetadata(t)
    \/ LoadValidate(t)
    \/ LoadSetLoading(t)
    \/ LoadGetConfig(t)
    \/ LoadStoreModel(t)
    \/ LoadStoreConfig(t)
    \/ LoadStoreTime(t)
    \/ LoadSetAvailable(t)
    \/ LoadRelease(t)
    \/ LoadReturn(t)

\* unload_model answering True and keeping the tables as they are
unload_model_keeping(model_type, name, version) ==
    LET model_key == get_model_key(model_type, name, version)
    IN  [loaded |-> loadedModels, configs |-> modelConfigs, times |-> loadTimes, stats |-> inferenceStats, res |-> model_key \in DOMAIN loadedModels]

\* unload_model leaving the latency samples of the key in place
unload_from_keeping_samples(tb, model_type, name, version) ==
    LET model_key == get_model_key(model_type, name, version)
    IN  IF model_key \notin DOMAIN tb.loaded
        THEN [loaded |-> tb.loaded, configs |-> tb.configs, times |-> tb.times, stats |-> tb.stats, res |-> FALSE]
        ELSE [loaded |-> DictDel(tb.loaded, model_key), configs |-> DictDel(tb.configs, model_key), times |-> DictDel(tb.times, model_key), stats |-> tb.stats, res |-> TRUE]

\* The tables of the manager, as unload_model and cleanup_old_models change them.
Tables == [loaded |-> loadedModels, configs |-> modelConfigs, times |-> loadTimes, stats |-> inferenceStats]

\* del d[k] if k in d
DelIfIn(d, k) == IF k \in DOMAIN d THEN DictDel(d, k) ELSE d

\* unload_model on the tables tb
unload_from(tb, model_type, name, version) ==
    LET model_key == get_model_key(model_type, name, version)
    IN  IF model_key \notin DOMAIN tb.loaded
        THEN [loaded |-> tb.loaded, configs |-> tb.configs, times |-> tb.times, stats |-> tb.stats, res |-> FALSE]
        ELSE [loaded |-> DictDel(tb.loaded, model_key), configs |-> DelIfIn(tb.configs, model_key), times |-> DelIfIn(tb.times, model_key), stats |-> DelIfIn(tb.stats, model_key), res |-> TRUE]

\* unload_model
unload_model(model_type, name, version) == unload_from(Tables, model_type, name, version)

RECURSIVE SumMemory(_, _)
SumMemory(d, keys) ==
    IF keys = {} THEN 0
    ELSE LET k == CHOOSE x \in keys : TRUE
         IN  d[k].memory_requirement_mb + SumMemory(d, keys \ {k})

\* get_memory_usage; the average is the fraction total / count.
get_memory_usage ==
    LET model_count == Cardinality(DOMAIN loadedModels)
        total_memory_mb == SumMemory(loadedModels, DOMAIN loadedModels)
    IN  [loaded_models_count |-> model_count,
         total_memory_mb |-> total_memory_mb,
         average_memory_per_model_mb |-> IF model_count > 0 THEN <<total_memory_mb, model_count>> ELSE <<0, 1>>]

-----------------------------------------------------------------------------
(* model_manager.py: performance bookkeeping and the cleanup sweep *)

MaxSamples == 100

\* xs[-n:]
LastN(xs, n) == IF Len(xs) > n THEN SubSeq(xs, Len(xs) - n + 1, Len(xs)) ELSE xs

\* _track_inference_time keeping the first MaxSamples samples
track_inference_time_keeping_oldest(stats, model_key, time_ms) ==
    LET times == IF model_key \in DOMAIN stats THEN stats[model_key] ELSE << >>
    IN  DictSet(stats, model_key, IF Len(times) >= MaxSamples THEN times ELSE Append(times, time_ms))

\* The samples handed to _track_inference_time for a key, all of them
Record(h, model_key, time_ms) == DictSet(h, model_key, Append(IF model_key \in DOMAIN h THEN h[model_key] ELSE << >>, time_ms))
\* ... of the keys whose samples are still held
StillKept(h, stats) == [k \in DOMAIN h \cap DOMAIN stats |-> h[k]]

\* _track_inference_time
track_inference_time(stats, model_key, time_ms) ==
    LET times == IF model_key \in DOMAIN stats THEN stats[model_key] ELSE << >>
    IN  DictSet(stats, model_key, LastN(Append(times, time_ms), MaxSamples))

\* sum(times), adding up the two halves of the list
RECURSIVE SumSeq(_)
SumSeq(xs) ==
    IF Len(xs) = 0 THEN 0
    ELSE IF Len(xs) = 1 THEN xs[1]
    ELSE SumSeq(SubSeq(xs, 1, Len(xs) \div 2)) + SumSeq(SubSeq(xs, Len(xs) \div 2 + 1, Len(xs)))

\* min(times) and max(times) of a list that is not empty
RECURSIVE MinSeq(_)
MinSeq(xs) ==
    IF Len(xs) = 1 THEN xs[1]
    ELSE LET a == MinSeq(SubSeq(xs, 1, Len(xs) \div 2))
             b == MinSeq(SubSeq(xs, Len(xs) \div 2 + 1, Len(xs)))
         IN  IF b < a THEN b ELSE a
RECURSIVE MaxSeq(_)
MaxSeq(xs) ==
    IF Len(xs) = 1 THEN xs[1]
    ELSE LET a == MaxSeq(SubSeq(xs, 1, Len(xs) \div 2))
             b == MaxSeq(SubSeq(xs, Len(xs) \div 2 + 1, Len(xs)))
         IN  IF b > a THEN b ELSE a

\* get_performance_stats; the average is the fraction sum / count.
get_performance_stats ==
    [model_key \in {k \in DOMAIN inferenceStats : Len(inferenceStats[k]) > 0} |->
        [avg_inference_time_ms |-> <<SumSeq(inferenceStats[model_key]), Len(inferenceStats[model_key])>>,
         min_inference_time_ms |-> MinSeq(inferenceStats[model_key]),
         max_inference_time_ms |-> MaxSeq(inferenceStats[model_key]),
         total_inferences |-> Len(inferenceStats[model_key])]]

\* cleanup_old_models, second loop: each old key is split into type, name
\* and version again and unloaded.
RECURSIVE UnloadKeys(_, _)
UnloadKeys(tb, old_models) ==
    IF old_models = {} THEN tb
    ELSE LET model_key == CHOOSE k \in old_models : TRUE
             type_rest == SplitFirst(model_key)
             name_version == RSplitLast(type_rest[2])
             done == unload_from(tb, type_rest[1][1], name_version[1], name_version[2])
         IN  UnloadKeys([loaded |-> done.loaded, configs |-> done.configs, times |-> done.times, stats |-> done.stats], old_models \ {model_key})

\* cleanup_old_models also sweeping the keys loaded exactly at the cutoff
cleanup_old_models_inclusive(max_age_days) ==
    UnloadKeys(Tables, {k \in DOMAIN loadTimes : loadTimes[k] <= clock - max_age_days})

\* cleanup_old_models: time is counted in days.
cleanup_old_models(max_age_days) ==
    LET cutoff_date == clock - max_age_days
        old_models == {k \in DOMAIN loadTimes : loadTimes[k] < cutoff_date}
    IN  UnloadKeys(Tables, old_models)

\* shutdown sparing the keys loaded at the present time
shutdown_sparing_recent == cleanup_old_models(0)

\* shutdown: every loaded key is split into type, name and version again and
\* unloaded; the thread pool, which no operation modelled here uses, is shut
\* down afterwards.
shutdown == UnloadKeys(Tables, DOMAIN loadedModels)

-----------------------------------------------------------------------------
(* model_manager.py: the processing entry points *)

\* settings.cache_size, the maxsize of each lru_cache
CacheSize == 2

ProcessParsing == "process_task_parsing"
ProcessPrioritization == "process_task_prioritization"
ProcessInsights == "process_insights_generation"
EntryPoints == {ProcessParsing, ProcessPrioritization, ProcessInsights}

TypeOf(ep) ==
    CASE ep = ProcessParsing -> TASK_PARSER
      [] ep = ProcessPrioritization -> PRIORITIZER
      [] ep = ProcessInsights -> INSIGHTS

\* The inputs: texts 1, 2, ... for the parser; JSON texts for the other two.
Texts == 1 .. CacheSize + 1
JsonTasks == "[{}]"
JsonNumber == "5"
JsonBroken == "invalid json"
JsonTexts == {JsonTasks, JsonNumber, JsonBroken}

\* json.loads: None where it raises
json_loads(x) ==
    CASE x = JsonTasks -> Some([kind |-> "list", len |-> 1])
      [] x = JsonNumber -> Some([kind |-> "num", len |-> 0])
      [] OTHER -> None

\* version or "latest"
Latest == <<"l", "a", "t", "e", "s", "t">>
VersionOrLatest(version) == IF IsNone(version) \/ version = Some(<< >>) THEN Latest ELSE Val(version)

\* The arguments of a call as the caller wrote them: model_name and version
\* are None where the caller left them out.
ArgsOf(input, model_name, version) == [input |-> input, model_name |-> model_name, version |-> version]
NameOrDefault(args) == IF IsNone(args.model_name) THEN NameD ELSE Val(args.model_name)

InferenceEvent(model_type, version, status) == [model_type |-> model_type, model_version |-> VersionOrLatest(version), status |-> status]

\* The except branch forgetting to record the error event
FailedSilently(ep, args, value) == [value |-> value, stats |-> inferenceStats, metrics |-> metrics, recorded |-> recorded]

\* What a body of an entry point does: the value it returns, the samples and
\* the telemetry events afterwards.
Succeeded(ep, args, value) ==
    [value |-> value,
     stats |-> track_inference_time(inferenceStats, get_model_key(TypeOf(ep), NameOrDefault(args), VersionOrLatest(args.version)), 0),
     metrics |-> Append(metrics, InferenceEvent(TypeOf(ep), args.version, "success")),
     recorded |-> Record(recorded, get_model_key(TypeOf(ep), NameOrDefault(args), VersionOrLatest(args.version)), 0)]
Failed(ep, args, value) ==
    [value |-> value,
     stats |-> inferenceStats,
     metrics |-> Append(metrics, InferenceEvent(TypeOf(ep), args.version, "error")),
     recorded |-> recorded]

\* process_task_parsing without its cache; analyzer_raises: TaskParser raises
process_task_parsing(args, analyzer_raises) ==
    IF ~analyzer_raises
    THEN Succeeded(ProcessParsing, args, [kind |-> "result", of |-> args.input])
    ELSE Failed(ProcessParsing, args, [kind |-> "fallback", of |-> args.input, confidence |-> 1, total |-> 1])

\* process_task_prioritization without its cache
process_task_prioritization(args, analyzer_raises) ==
    LET tasks == json_loads(args.input)
    IN  IF ~IsNone(tasks) /\ ~analyzer_raises
        THEN Succeeded(ProcessPrioritization, args, [kind |-> "result", of |-> args.input])
        ELSE IF ~IsNone(tasks) /\ Val(tasks).kind = "list"
        THEN Failed(ProcessPrioritization, args, [kind |-> "fallback", of |-> args.input, confidence |-> 1, total |-> Val(tasks).len])
        ELSE Failed(ProcessPrioritization, args, [kind |-> "fallback", of |-> args.input, confidence |-> 0, total |-> 0])

\* process_insights_generation without its cache
process_insights_generation(args, analyzer_raises) ==
    LET task_data == json_loads(args.input)
    IN  IF ~IsNone(task_data) /\ ~analyzer_raises
        THEN Succeeded(ProcessInsights, args, [kind |-> "result", of |-> args.input])
        ELSE Failed(ProcessInsights, args, [kind |-> "fallback", of |-> args.input, confidence |-> 3, total |-> 0])

Body(ep, args, analyzer_raises) ==
    CASE ep = ProcessParsing -> process_task_parsing(args, analyzer_raises)
      [] ep = ProcessPrioritization -> process_task_prioritization(args, analyzer_raises)
      [] ep = ProcessInsights -> process_insights_generation(args, analyzer_raises)

\* functools.lru_cache(maxsize): the entries from the least to the most
\* recently used, with the hit and miss counters of cache_info().
EmptyLru == [entries |-> << >>, hits |-> 0, misses |-> 0]

\* A lookup that compares the input alone
RECURSIVE LruIndexByInput(_, _, _)
LruIndexByInput(entries, key, i) ==
    IF i > Len(entries) THEN 0
    ELSE IF entries[i].key.input = key.input THEN i
    ELSE LruIndexByInput(entries, key, i + 1)

RECURSIVE LruIndex(_, _, _)
LruIndex(entries, key, i) ==
    IF i > Len(entries) THEN 0
    ELSE IF entries[i].key = key THEN i
    ELSE LruIndex(entries, key, i + 1)

Without(entries, i) == SubSeq(entries, 1, i - 1) \o SubSeq(entries, i + 1, Len(entries))

\* A hit that leaves the entry where it is (first in, first out)
LruHitInPlace(c, i) == [entries |-> c.entries, hits |-> c.hits + 1, misses |-> c.misses]

\* A hit: the entry becomes the most recently used one.
LruHit(c, i) == [entries |-> Append(Without(c.entries, i), c.entries[i]), hits |-> c.hits + 1, misses |-> c.misses]

\* A miss that stores the value only when it is no fallback
LruMissDroppingFallback(c, key, value, maxsize) ==
    [entries |-> IF maxsize = 0 \/ value.kind = "fallback" THEN c.entries
                 ELSE IF Len(c.entries) >= maxsize THEN Append(Tail(c.entries), [key |-> key, value |-> value])
                 ELSE Append(c.entries, [key |-> key, value |-> value]),
     hits |-> c.hits,
     misses |-> c.misses + 1]

\* A miss: the value is stored; a full cache drops its least recently used entry.
LruMiss(c, key, value, maxsize) ==
    [entries |-> IF maxsize = 0 THEN << >>
                 ELSE IF Len(c.entries) >= maxsize THEN Append(Tail(c.entries), [key |-> key, value |-> value])
                 ELSE Append(c.entries, [key |-> key, value |-> value]),
     hits |-> c.hits,
     misses |-> c.misses + 1]

-----------------------------------------------------------------------------
(* config_loader.py *)

MockMemoryMb == 128
FileMemoryMb == 256

\* _create_default_config
DefaultConfig ==
    [model_definitions |->
        <<[type |-> TASK_PARSER,
           models |-> <<[name |-> NameD,
                         versions |-> <<[version |-> V1,
                                         def |-> [model_source |-> "mock",
                                                  memory_requirement_mb |-> MockMemoryMb,
                                                  config |-> [max_length |-> Num(512), temperature |-> Num(7)]]]>>,
                         default_version |-> V1]>>]>>,
     global_config |-> [cache_enabled |-> Num(1), cache_size |-> Num(100), timeout_seconds |-> Num(30)]]

\* The configuration file: absent (None), or a text that json.load parses
\* to a document or rejects.
AbsentFile == None
MalformedFile == Some([text |-> "{ invalid json content", parses_to |-> None])
JsonFile(doc) == Some([text |-> "json", parses_to |-> Some(doc)])

\* load_config keeping the configuration it holds when the file cannot be used
load_config_keeping(config_data, file) ==
    IF IsNone(file) \/ IsNone(Val(file).parses_to)
    THEN [data |-> config_data, res |-> FALSE]
    ELSE [data |-> Val(Val(file).parses_to), res |-> TRUE]

\* load_config: the configuration held afterwards and the value returned
load_config(config_data, file) ==
    IF IsNone(file) THEN [data |-> DefaultConfig, res |-> FALSE]
    ELSE IF IsNone(Val(file).parses_to) THEN [data |-> DefaultConfig, res |-> FALSE]
    ELSE [data |-> Val(Val(file).parses_to), res |-> TRUE]

\* A configuration file declaring default/v1 for the parser and the prioritizer.
TwoTypeConfig ==
    [model_definitions |->
        <<[type |-> TASK_PARSER,
           models |-> <<[name |-> NameD,
                         versions |-> <<[version |-> V1,
                                         def |-> [model_source |-> "mock",
                                                  memory_requirement_mb |-> MockMemoryMb,
                                                  config |-> CfgOk]]>>,
                         default_version |-> V1]>>],
          [type |-> PRIORITIZER,
           models |-> <<[name |-> NameD,
                         versions |-> <<[version |-> V1,
                                         def |-> [model_source |-> "huggingface",
                                                  memory_requirement_mb |-> FileMemoryMb,
                                                  config |-> CfgEmpty]]>>,
                         default_version |-> V1]>>]>>,
     global_config |-> EmptyDict]

\* A configuration file with a type the service does not know, a mock
\* version that leaves memory_requirement_mb and config out, and a version
\* that is not a mock.
MixedConfig ==
    [model_definitions |->
        <<[type |-> "vision",
           models |-> <<[name |-> NameD,
                         versions |-> <<[version |-> V1,
                                         def |-> [model_source |-> "mock",
                                                  memory_requirement_mb |-> MockMemoryMb]]>>,
                         default_version |-> V1]>>],
          [type |-> TASK_PARSER,
           models |-> <<[name |-> NameD,
                         versions |-> <<[version |-> V2,
                                         def |-> [model_source |-> "mock"]],
                                        [version |-> V10,
                                         def |-> [model_source |-> "local",
                                                  memory_requirement_mb |-> FileMemoryMb]]>>,
                         default_version |-> V2]>>]>>,
     global_config |-> EmptyDict]

ConfigFiles == {TwoTypeConfig}

\* d.get(k, default)
Get(d, k, default) == IF k \in DOMAIN d THEN d[k] ELSE default

\* get_version_definition (through get_model_definition): None where a
\* KeyError is caught
get_version_definition(config_data, model_type, name, version) ==
    LET defs == Get(config_data, "model_definitions", << >>)
        of_type == {i \in 1 .. Len(defs) : defs[i].type = model_type}
        named(i) == {j \in 1 .. Len(defs[i].models) : defs[i].models[j].name = name /\ "versions" \in DOMAIN defs[i].models[j]}
        versioned(i, j) == {k \in 1 .. Len(defs[i].models[j].versions) : defs[i].models[j].versions[k].version = version}
        found == UNION {UNION {{defs[i].models[j].versions[k].def : k \in versioned(i, j)} : j \in named(i)} : i \in of_type}
    IN  IF found = {} THEN None ELSE Some(CHOOSE d \in found : TRUE)

\* create_model_config: None where the version definition is missing or
\* falsy, or where ModelConfig(**config_data) raises
create_model_config(config_data, model_type, name, version) ==
    LET version_def == get_version_definition(config_data, model_type, name, version)
    IN  IF IsNone(version_def) \/ DOMAIN Val(version_def) = {} THEN None
        ELSE LET global == Get(config_data, "global_config", EmptyDict)
                 overlaid == IF "config" \in DOMAIN Val(version_def) THEN DictUpdate(global, Val(version_def).config) ELSE global
                 merged == DictUpdate(overlaid, [model_type |-> model_type, name |-> name, version |-> version])
             IN  ModelConfig(merged.model_type, merged.name, merged.version, merged)

\* The declared versions in the order initialize_models_from_config visits them.
RECURSIVE DeclaredVersions(_, _, _)
DeclaredVersions(type, name, versions) ==
    IF Len(versions) = 0 THEN << >>
    ELSE <<[type |-> type, name |-> name, version |-> Head(versions).version, def |-> Head(versions).def]>> \o DeclaredVersions(type, name, Tail(versions))

RECURSIVE DeclaredModels(_, _)
DeclaredModels(type, models) ==
    IF Len(models) = 0 THEN << >>
    ELSE DeclaredVersions(type, Head(models).name, Get(Head(models), "versions", << >>)) \o DeclaredModels(type, Tail(models))

RECURSIVE Declared(_)
Declared(defs) ==
    IF Len(defs) = 0 THEN << >>
    ELSE (IF Head(defs).type \in ModelType THEN DeclaredModels(Head(defs).type, Head(defs).models) ELSE << >>) \o Declared(Tail(defs))

\* _create_mock_model
create_mock_model(s, now, model_type, name, version, version_def) ==
    LET dir == get_model_directory(model_type, name, version)
        mock_file == MockPath(dir)
        s1 == [s EXCEPT !.files[mock_file] = Some(MockBytes)]
        md == create_model_metadata(s1.files, now, name, version, model_type, mock_file, Get(version_def, "model_source", "mock"), Get(version_def, "memory_requirement_mb", MockMemoryMb), Get(version_def, "config", EmptyDict))
    IN  IF IsNone(md) THEN [st |-> s1, res |-> FALSE] ELSE register_model(s1, Val(md))

\* initialize_models_from_config, from the declarations still to visit
RECURSIVE InitializeFrom(_, _, _, _)
InitializeFrom(s, now, decls, results) ==
    IF Len(decls) = 0 THEN [st |-> s, res |-> results]
    ELSE LET d == Head(decls)
             model_key == get_model_key(d.type, d.name, d.version)
             existing == get_model_metadata(s, d.type, d.name, d.version)
             made == create_mock_model(existing.st, now, d.type, d.name, d.version, d.def)
         IN  IF ~IsNone(existing.res)
             THEN InitializeFrom(existing.st, now, Tail(decls), DictSet(results, model_key, TRUE))
             ELSE IF "model_source" \in DOMAIN d.def /\ d.def.model_source = "mock"
             THEN InitializeFrom(made.st, now, Tail(decls), DictSet(results, model_key, made.res))
             ELSE InitializeFrom(existing.st, now, Tail(decls), DictSet(results, model_key, FALSE))

\* initialize_models_from_config
initialize_models_from_config(s, now, config_data) ==
    InitializeFrom(s, now, Declared(Get(config_data, "model_definitions", << >>)), EmptyDict)

\* An error message of validate_config: its wording and the strings put into it.
ErrorMsg(kind, parts) == [kind |-> kind, parts |-> parts]

\* The keys of a versions map
VersionKeys(versions) == {versions[i].version : i \in 1 .. Len(versions)}

\* validate_config: the version definitions of one name
RECURSIVE ValidateVersions(_, _, _)
ValidateVersions(type, name, versions) ==
    IF Len(versions) = 0 THEN << >>
    ELSE (IF "model_source" \notin DOMAIN Head(versions).def THEN <<ErrorMsg("Missing model_source", <<<<type>>, name, Head(versions).version>>)>> ELSE << >>)
         \o (IF "memory_requirement_mb" \notin DOMAIN Head(versions).def THEN <<ErrorMsg("Missing memory_requirement_mb", <<<<type>>, name, Head(versions).version>>)>> ELSE << >>)
         \o ValidateVersions(type, name, Tail(versions))

\* validate_config: one name of a type; an empty default_version is falsy.
ValidateModel(type, model_def) ==
    IF "versions" \notin DOMAIN model_def
    THEN <<ErrorMsg("Missing versions", <<<<type>>, model_def.name>>)>>
    ELSE (IF "default_version" \notin DOMAIN model_def THEN <<ErrorMsg("Missing default_version", <<<<type>>, model_def.name>>)>> ELSE << >>)
         \o (IF "default_version" \in DOMAIN model_def /\ model_def.default_version # << >> /\ model_def.default_version \notin VersionKeys(model_def.versions)
             THEN <<ErrorMsg("Default version not found in versions", <<model_def.default_version, <<type>>, model_def.name>>)>>
             ELSE << >>)
         \o ValidateVersions(type, model_def.name, model_def.versions)

RECURSIVE ValidateModels(_, _)
ValidateModels(type, models) ==
    IF Len(models) = 0 THEN << >>
    ELSE ValidateModel(type, Head(models)) \o ValidateModels(type, Tail(models))

\* validate_config: the types of the model_definitions section
RECURSIVE ValidateTypes(_)
ValidateTypes(defs) ==
    IF Len(defs) = 0 THEN << >>
    ELSE (IF Head(defs).type \notin ModelType
          THEN <<ErrorMsg("Invalid model type", <<<<Head(defs).type>>>>)>>
          ELSE ValidateModels(Head(defs).type, Head(defs).models))
         \o ValidateTypes(Tail(defs))

\* validate_config
validate_config(config_data) ==
    IF DOMAIN config_data = {}
    THEN <<ErrorMsg("No configuration data loaded", << >>)>>
    ELSE IF "model_definitions" \notin DOMAIN config_data
    THEN <<ErrorMsg("Missing 'model_definitions' section", << >>)>>
    ELSE ValidateTypes(config_data.model_definitions)

-----------------------------------------------------------------------------
(* The calls of one caller at a time (thread Main), each a whole call *)

Init ==
    /\ metaFile = [a \in AllArts |-> None]
    /\ registry = [mt \in ModelType |-> << >>]
    /\ artFile = [p \in AllPaths |-> IF p[1] = "ext" THEN Some(Bytes0) ELSE None]
    /\ cache = EmptyDict
    /\ peerCache = EmptyDict
    /\ configData = DefaultConfig
    /\ loadedModels = EmptyDict
    /\ modelConfigs = EmptyDict
    /\ loadTimes = EmptyDict
    /\ loadingLocks = EmptyDict
    /\ lockHolder = EmptyDict
    /\ clock = 0
    /\ pc = [t \in Threads |-> "idle"]
    /\ frame = [t \in Threads |-> IdleFrame]
    /\ ret = [t \in Threads |-> NoCall]
    /\ prev = NoCall
    /\ calls = 0
    /\ e2e = 0
    /\ inferenceStats = EmptyDict
    /\ lruCache = [ep \in EntryPoints |-> EmptyLru]
    /\ metrics = << >>
    /\ asked = [ep \in EntryPoints |-> << >>]
    /\ recorded = EmptyDict

\* A call is made: at most MaxCalls calls in a run.
Call == calls < MaxCalls /\ calls' = calls + 1 /\ UNCHANGED prev
\* A call is made, and the call completed before it is remembered.
TrackedCall == calls < MaxCalls /\ calls' = calls + 1 /\ prev' = ret[Main]
\* A step that is not a new call.
NoCallMade == UNCHANGED <<calls, prev>>
\* A call outside the budget of calls; the call completed before it is remembered.
Remembered == prev' = ret[Main] /\ UNCHANGED calls

Returned(op, args, res) == ret' = [ret EXCEPT ![Main] = [op |-> op, args |-> args, res |-> res]]

\* ModelManager.register_model_from_file on the caller's file of the artifact
RegisterFromFile(a, config) ==
    /\ AllIdle
    /\ LET md == create_model_metadata(artFile, clock, a[2], a[3], a[1], ExtPath(a), "local", FileMemoryMb, config)
           done == register_model(VM, Val(md))
       IN  IF IsNone(md)
           THEN Returned("register_model_from_file", <<a>>, FALSE) /\ UNCHANGED vmVars
           ELSE Returned("register_model_from_file", <<a>>, done.res) /\ SetVM(done.st)
    /\ e2e' = 0
    /\ UNCHANGED <<procVars, mmVars, lockVars, configData, clock, pc, frame>>

\* ModelVersionManager.register_model(metadata) of a metadata object
RegisterModel(md) ==
    /\ AllIdle
    /\ LET done == register_model(VM, md)
       IN  Returned("register_model", <<md>>, done.res) /\ SetVM(done.st)
    /\ e2e' = 0
    /\ UNCHANGED <<procVars, mmVars, lockVars, configData, clock, pc, frame>>

UpdateStatus(a, status) ==
    /\ AllIdle
    /\ LET done == update_model_status(VM, a[1], a[2], a[3], status, clock)
       IN  Returned("update_model_status", <<a, status>>, done.res) /\ SetVM(done.st)
    /\ e2e' = 0
    /\ UNCHANGED <<procVars, mmVars, lockVars, configData, clock, pc, frame>>

DeleteVersion(a) ==
    /\ AllIdle
    /\ LET done == delete_model_version(VM, a[1], a[2], a[3])
       IN  Returned("delete_model_version", <<a>>, done.res) /\ SetVM(done.st)
    /\ e2e' = 0
    /\ UNCHANGED <<procVars, mmVars, lockVars, configData, clock, pc, frame>>

GetMetadata(a) ==
    /\ AllIdle
    /\ LET done == get_model_metadata(VM, a[1], a[2], a[3])
       IN  Returned("get_model_metadata", <<a>>, done.res) /\ SetVM(done.st)
    /\ e2e' = 0
    /\ UNCHANGED <<procVars, mmVars, lockVars, configData, clock, pc, frame>>

\* ModelVersionManager.get_model_config
GetModelConfig(a) ==
    /\ AllIdle
    /\ LET done == get_model_config(VM, a[1], a[2], a[3])
       IN  Returned("get_model_config", <<a>>, done.res) /\ SetVM(done.st)
    /\ e2e' = 0
    /\ UNCHANGED <<procVars, mmVars, lockVars, configData, clock, pc, frame>>

ListVersions(model_type, name) ==
    /\ AllIdle
    /\ Returned("list_versions", <<model_type, name>>, list_versions(VM, model_type, name))
    /\ e2e' = 0
    /\ UNCHANGED <<procVars, vmVars, mmVars, lockVars, configData, clock, pc, frame>>

GetLatestVersion(model_type, name) ==
    /\ AllIdle
    /\ Returned("get_latest_version", <<model_type, name>>, get_latest_version(VM, model_type, name))
    /\ e2e' = 0
    /\ UNCHANGED <<procVars, vmVars, mmVars, lockVars, configData, clock, pc, frame>>

ValidateIntegrity(a) ==
    /\ AllIdle
    /\ LET done == validate_model_integrity(VM, a[1], a[2], a[3])
       IN  Returned("validate_model_integrity", <<a>>, done.res) /\ SetVM(done.st)
    /\ e2e' = 0
    /\ UNCHANGED <<procVars, mmVars, lockVars, configData, clock, pc, frame>>

Unload(a) ==
    /\ AllIdle
    /\ LET done == unload_model(a[1], a[2], a[3])
       IN  /\ Returned("unload_model", <<a>>, done.res)
           /\ loadedModels' = done.loaded
           /\ modelConfigs' = done.configs
           /\ loadTimes' = done.times
           /\ inferenceStats' = done.stats
           /\ recorded' = StillKept(recorded, done.stats)
    /\ e2e' = IF e2e = 3 /\ a = ParserV1 THEN 4 ELSE 0
    /\ UNCHANGED <<lruCache, metrics, asked, vmVars, lockVars, configData, clock, pc, frame>>

GetMemoryUsage ==
    /\ AllIdle
    /\ Returned("get_memory_usage", << >>, get_memory_usage)
    /\ e2e' = IF e2e = 2 THEN 3 ELSE 0
    /\ UNCHANGED <<procVars, vmVars, mmVars, lockVars, configData, clock, pc, frame>>

\* An empty version manager: nothing registered, no file synthesized.
EmptyVersionManager ==
    /\ \A a \in AllArts : IsNone(metaFile[a]) /\ IsNone(artFile[MockPath(a)])
    /\ \A mt \in ModelType : registry[mt] = << >>
    /\ cache = EmptyDict

\* ModelConfigLoader.initialize_models_from_config(version_manager)
Reconcile ==
    /\ AllIdle
    /\ LET done == initialize_models_from_config(VM, clock, configData)
       IN  Returned("initialize_models_from_config", << >>, done.res) /\ SetVM(done.st)
    /\ e2e' = IF EmptyVersionManager /\ loadedModels = EmptyDict /\ configData = DefaultConfig THEN 1 ELSE 0
    /\ UNCHANGED <<procVars, mmVars, lockVars, configData, clock, pc, frame>>

\* load_config / reload_config with a configuration file present
LoadConfig(doc) ==
    /\ AllIdle
    /\ configData' = doc
    /\ Returned("load_config", << >>, TRUE)
    /\ e2e' = 0
    /\ UNCHANGED <<procVars, vmVars, mmVars, lockVars, clock, pc, frame>>

\* load_config / reload_config, whatever the state of the configuration file
LoadConfigFile(file) ==
    /\ AllIdle
    /\ LET done == load_config(configData, file)
       IN  configData' = done.data /\ Returned("load_config", <<file>>, done.res)
    /\ e2e' = 0
    /\ UNCHANGED <<procVars, vmVars, mmVars, lockVars, clock, pc, frame>>

\* ModelConfigLoader.create_model_config(model_type, name, version)
CreateModelConfig(a) ==
    /\ AllIdle
    /\ Returned("create_model_config", <<a>>, create_model_config(configData, a[1], a[2], a[3]))
    /\ e2e' = 0
    /\ UNCHANGED <<procVars, vmVars, mmVars, lockVars, configData, clock, pc, frame>>

\* ModelConfigLoader.validate_config()
Validate ==
    /\ AllIdle
    /\ Returned("validate_config", << >>, validate_config(configData))
    /\ e2e' = 0
    /\ UNCHANGED <<procVars, vmVars, mmVars, lockVars, configData, clock, pc, frame>>

\* A new ModelVersionManager over the same directory: the registry files
\* that exist are kept, the metadata cache starts empty.
NewVersionManager ==
    /\ AllIdle
    /\ cache # EmptyDict
    /\ cache' = EmptyDict
    /\ UNCHANGED <<procVars, peerCache, metaFile, registry, artFile, mmVars, lockVars, configData, clock, pc, frame, ret, e2e>>

\* Something outside the service rewrites or removes an artifact file.
MutateFile(path, content) ==
    /\ AllIdle
    /\ artFile[path] # content
    /\ artFile' = [artFile EXCEPT ![path] = content]
    /\ Returned("file_changed", <<path>>, TRUE)
    /\ e2e' = 0
    /\ UNCHANGED <<procVars, peerCache, metaFile, registry, cache, mmVars, lockVars, configData, clock, pc, frame>>

Tick ==
    /\ AllIdle
    /\ clock < MaxClock
    /\ clock' = clock + 1
    /\ UNCHANGED <<procVars, vmVars, mmVars, lockVars, configData, pc, frame, ret, e2e>>

\* A processing entry point called with the arguments args, behind its
\* lru_cache; analyzer_raises: the analyzer raises when the body calls it
\* (on a hit the body does not run).
Process(ep, args, analyzer_raises) ==
    /\ AllIdle
    /\ LET i == LruIndex(lruCache[ep].entries, args, 1)
           done == Body(ep, args, analyzer_raises)
       IN  IF i > 0
           THEN /\ ~analyzer_raises
                /\ Returned(ep, <<args, FALSE>>, lruCache[ep].entries[i].value)
                /\ lruCache' = [lruCache EXCEPT ![ep] = LruHit(@, i)]
                /\ UNCHANGED <<inferenceStats, metrics, recorded>>
           ELSE /\ Returned(ep, <<args, analyzer_raises>>, done.value)
                /\ lruCache' = [lruCache EXCEPT ![ep] = LruMiss(@, args, done.value, CacheSize)]
                /\ inferenceStats' = done.stats
                /\ metrics' = done.metrics
                /\ recorded' = done.recorded
    /\ asked' = [asked EXCEPT ![ep] = Append(@, args)]
    /\ e2e' = 0
    /\ UNCHANGED <<vmVars, mmVars, lockVars, configData, clock, pc, frame>>

\* cache_clear() of an entry point: the entries and the counters are reset.
CacheClear(ep) ==
    /\ AllIdle
    /\ lruCache[ep] # EmptyLru
    /\ lruCache' = [lruCache EXCEPT ![ep] = EmptyLru]
    /\ asked' = [asked EXCEPT ![ep] = << >>]
    /\ UNCHANGED <<inferenceStats, metrics, recorded, vmVars, mmVars, lockVars, configData, clock, pc, frame, ret, e2e>>

\* ModelManager.cleanup_old_models(max_age_days)
Cleanup(max_age_days) ==
    /\ AllIdle
    /\ LET done == cleanup_old_models(max_age_days)
       IN  /\ loadedModels' = done.loaded
           /\ modelConfigs' = done.configs
           /\ loadTimes' = done.times
           /\ inferenceStats' = done.stats
           /\ recorded' = StillKept(recorded, done.stats)
    /\ Returned("cleanup_old_models", <<max_age_days>>, TRUE)
    /\ e2e' = 0
    /\ UNCHANGED <<lruCache, metrics, asked, vmVars, lockVars, configData, clock, pc, frame>>

\* ModelManager.shutdown()
Shutdown ==
    /\ AllIdle
    /\ LET done == shutdown
       IN  /\ loadedModels' = done.loaded
           /\ modelConfigs' = done.configs
           /\ loadTimes' = done.times
           /\ inferenceStats' = done.stats
           /\ recorded' = StillKept(recorded, done.stats)
    /\ Returned("shutdown", << >>, TRUE)
    /\ e2e' = 0
    /\ UNCHANGED <<lruCache, metrics, asked, vmVars, lockVars, configData, clock, pc, frame>>

\* ModelManager._track_inference_time(model_key, time_ms)
TrackInferenceTime(model_key, time_ms) ==
    /\ AllIdle
    /\ inferenceStats' = track_inference_time(inferenceStats, model_key, time_ms)
    /\ recorded' = Record(recorded, model_key, time_ms)
    /\ Returned("track_inference_time", <<model_key, time_ms>>, None)
    /\ e2e' = 0
    /\ UNCHANGED <<lruCache, metrics, asked, vmVars, mmVars, lockVars, configData, clock, pc, frame>>

\* ModelManager.get_performance_stats()
GetPerformanceStats ==
    /\ AllIdle
    /\ Returned("get_performance_stats", << >>, get_performance_stats)
    /\ e2e' = 0
    /\ UNCHANGED <<procVars, vmVars, mmVars, lockVars, configData, clock, pc, frame>>

MainConfigs == {CfgOk, CfgHot}
Mutations == {None, Some(BytesFlipped), Some(BytesLonger)}

\* Registration, file changes, status updates, loads and unloads of the
\* parser artifact default/v1, with a prioritizer artifact of the same name
\* and version registered beside it.
Next ==
    \/ Call /\ \E c \in MainConfigs : RegisterFromFile(ParserV1, c)
    \/ Call /\ RegisterFromFile(PrioV1, CfgOk)
    \/ Call /\ \E st \in {DEPRECATED, ERROR} : UpdateStatus(ParserV1, st)
    \/ Call /\ Unload(ParserV1)
    \/ Call /\ \E c \in Mutations : MutateFile(ExtPath(ParserV1), c)
    \/ Call /\ MutateFile(ExtPath(PrioV1), None)
    \/ Call /\ \E a \in {ParserV1, PrioV1} : LoadCall(Main, a[1], a[2], Some(a[3]))
    \/ NoCallMade /\ LoadStep(Main)
    \/ NoCallMade /\ Tick

Spec == Init /\ [][Next]_vars

-----------------------------------------------------------------------------
(* Views used by the properties *)

\* What get_model_metadata answers for an artifact in the current state.
MetadataOf(a) == get_model_metadata(VM, a[1], a[2], a[3]).res
StatusOf(a) == Val(MetadataOf(a)).status
Registered(a) == ~IsNone(metaFile[a])
KeyOf(a) == get_model_key(a[1], a[2], a[3])
Loaded(a) == KeyOf(a) \in DOMAIN loadedModels
IntegrityOk(a) == validate_model_integrity(VM, a[1], a[2], a[3]).res[1]

\* The artifact's file no longer is what its own metadata.json records.
FileChanged(a) ==
    LET own == Val(metaFile[a])
    IN  \/ IsNone(artFile[own.file_path])
        \/ Len(Val(artFile[own.file_path])) # own.file_size_bytes
        \/ Sha256(Val(artFile[own.file_path])) # own.file_hash

\* The last call of Main was load_model of artifact a, and it went through
\* the load body (it was not answered by the already-loaded check).
LoadedThroughBody(a) ==
    /\ pc[Main] = "idle"
    /\ ret[Main].op = "load_model"
    /\ <<ret[Main].args[1], ret[Main].args[2]>> = <<a[1], a[2]>>
    /\ ret[Main].args[3] = Some(a[3])
    /\ ~IsNone(ret[Main].args[4])

\* The last call of Main was load_model of artifact a.
LoadReturned(a) ==
    /\ pc[Main] = "idle"
    /\ ret[Main].op = "load_model"
    /\ <<ret[Main].args[1], ret[Main].args[2]>> = <<a[1], a[2]>>
    /\ ret[Main].args[3] = Some(a[3])

\* The artifact a thread is loading, once the version is resolved.
Target(t) == <<frame[t].model_type, frame[t].name, Val(frame[t].version)>>

-----------------------------------------------------------------------------
(* C4, C5, C6: integrity and configuration failures, the order of a load *)

\* C4 (as claimed): when load_model reaches its integrity check for a
\* registered artifact whose file no longer is what the artifact's own
\* metadata.json records, validate_model_integrity fails, and the step
\* leaves the load failed, the status ERROR and the key not loaded.
C4_IntegrityDetected ==
    [][(pc[Main] = "validate" /\ Target(Main) = ParserV1 /\ Registered(ParserV1) /\ FileChanged(ParserV1))
        => /\ ~IntegrityOk(ParserV1)
           /\ frame'[Main].result = FALSE
           /\ pc'[Main] = "release"
           /\ StatusOf(ParserV1)' = ERROR
           /\ ~Loaded(ParserV1)']_vars

\* C5 (as claimed): when load_model has gone through the load body for an
\* artifact that passes the integrity check but whose stored config yields
\* no ModelConfig, it has returned false, the key is not loaded and the
\* status is ERROR.
C5_ConfigFailureIsError ==
    \A a \in {ParserV1, PrioV1} :
        (LoadedThroughBody(a) /\ IntegrityOk(a) /\ IsNone(get_model_config(VM, a[1], a[2], a[3]).res))
            => /\ ret[Main].res = FALSE
               /\ ~Loaded(a)
               /\ StatusOf(a) = ERROR

\* C6 (as claimed): when load_model has returned true, the key is loaded
\* and the status of the artifact is AVAILABLE.
C6_EveryTrueLoadAvailable ==
    \A a \in {ParserV1, PrioV1} :
        (LoadReturned(a) /\ ret[Main].res = TRUE)
            => Loaded(a) /\ StatusOf(a) = AVAILABLE

\* C6 (amended): in a load that goes through the load body, the status is
\* LOADING only from the step after a successful integrity check and until
\* the record, the config and the load time are stored with the current
\* time; the status is AVAILABLE afterwards, and when such a load returns
\* true the key is loaded and its status is AVAILABLE.
C6_LoadOrder ==
    /\ \A t \in Threads :
        /\ pc[t] \in {"get_config", "store_model", "store_config", "store_time", "set_available"}
            => IntegrityOk(Target(t)) /\ StatusOf(Target(t)) = LOADING
        /\ pc[t] = "set_available"
            => /\ frame[t].model_key \in DOMAIN loadedModels
               /\ loadedModels[frame[t].model_key].loaded_at = clock
               /\ loadTimes[frame[t].model_key] = clock
        /\ (pc[t] \in {"release", "return"} /\ frame[t].result = TRUE /\ ~IsNone(frame[t].metadata))
            => Loaded(Target(t)) /\ StatusOf(Target(t)) = AVAILABLE
    /\ \A a \in {ParserV1, PrioV1} :
        (LoadedThroughBody(a) /\ ret[Main].res = TRUE)
            => /\ Loaded(a)
               /\ StatusOf(a) = AVAILABLE
               /\ loadTimes[KeyOf(a)] = loadedModels[KeyOf(a)].loaded_at

\* A load went through the body after time had passed and returned true.
C6_Witness ==
    LoadedThroughBody(ParserV1) /\ ret[Main].res = TRUE /\ loadTimes[KeyOf(ParserV1)] > 0

-----------------------------------------------------------------------------
(* Concurrent loads of one key *)

\* No load_model call has been made yet.
NoLoadYet == AllIdle /\ \A t \in Threads : ret[t].op # "load_model"

\* The part of load_model from the metadata fetch to the final status update
InLoadBody(t) ==
    pc[t] \in {"get_metadata", "validate", "set_loading", "get_config", "store_model", "store_config", "store_time", "set_available"}

\* The artifact is registered and its file is prepared before the threads
\* call load_model(TASK_PARSER, "d", "v1"), each thread once.
NextLoad ==
    \/ NoCallMade /\ NoLoadYet /\ \E c \in MainConfigs : RegisterFromFile(ParserV1, c)
    \/ NoCallMade /\ NoLoadYet /\ MutateFile(ExtPath(ParserV1), Some(BytesFlipped))
    \/ NoCallMade /\ \E t \in Threads : ret[t].op # "load_model" /\ LoadCall(t, ParserV1[1], ParserV1[2], Some(ParserV1[3]))
    \/ NoCallMade /\ \E t \in Threads : LoadStep(t)

SpecLoad == Init /\ [][NextLoad]_vars

\* C1 (as claimed): every load_model call for a registered key whose
\* integrity check succeeds has returned true, and the loaded table then
\* holds the entry of that key and no other.
C1_AllLoadsTrue ==
    \A t \in Threads :
        (pc[t] = "idle" /\ ret[t].op = "load_model" /\ Registered(ParserV1) /\ IntegrityOk(ParserV1))
            => /\ ret[t].res = TRUE
               /\ DOMAIN loadedModels = {KeyOf(ParserV1)}

\* C1 (amended): every load_model call for a registered key whose integrity
\* check succeeds and whose stored config makes a valid ModelConfig has
\* returned true and the loaded table then holds the entry of that key and
\* no other; so do the config table and the load times once no call is
\* running.
C1_AllLoadableLoadsTrue ==
    \A t \in Threads :
        (/\ pc[t] = "idle" /\ ret[t].op = "load_model"
         /\ Registered(ParserV1) /\ IntegrityOk(ParserV1)
         /\ ~IsNone(get_model_config(VM, ParserV1[1], ParserV1[2], ParserV1[3]).res))
            => /\ ret[t].res = TRUE
               /\ DOMAIN loadedModels = {KeyOf(ParserV1)}
               /\ AllIdle => /\ DOMAIN modelConfigs = {KeyOf(ParserV1)}
                              /\ DOMAIN loadTimes = {KeyOf(ParserV1)}

\* Every thread has called load_model while another was still inside the
\* call, all have returned true, and one of them through the early return.
C1_Witness ==
    /\ \A t \in Threads : pc[t] = "idle" /\ ret[t].op = "load_model" /\ ret[t].res = TRUE
    /\ \E t \in Threads : IsNone(ret[t].args[4])
    /\ \E t \in Threads : ~IsNone(ret[t].args[4])

\* C2 (as claimed): no two threads are inside the load body for the same
\* key at the same time.
C2_Serialized ==
    \A t1, t2 \in Threads :
        (t1 # t2 /\ InLoadBody(t1) /\ InLoadBody(t2)) => frame[t1].model_key # frame[t2].model_key

-----------------------------------------------------------------------------
(* Concurrent writers of one registry file: register_model and
   delete_model_version statement by statement.  A thread keeps the
   registry it has read in its frame until it writes it back. *)

RegFrame(a, md) == [target |-> a, md |-> md, reg |-> << >>]

ReturnFrom(t, op, args, res) ==
    /\ ret' = [ret EXCEPT ![t] = [op |-> op, args |-> args, res |-> res]]
    /\ pc' = [pc EXCEPT ![t] = "idle"]
    /\ frame' = [frame EXCEPT ![t] = IdleFrame]

\* A thread calls register_model with the metadata of its artifact.
RegisterCall(t, a) ==
    /\ pc[t] = "idle"
    /\ LET md == create_model_metadata(artFile, clock, a[2], a[3], a[1], ExtPath(a), "local", FileMemoryMb, CfgOk)
       IN  /\ ~IsNone(md)
           /\ frame' = [frame EXCEPT ![t] = RegFrame(a, Val(md))]
    /\ pc' = [pc EXCEPT ![t] = "reg_metadata"]
    /\ ret' = [ret EXCEPT ![t] = NoCall]
    /\ e2e' = 0
    /\ UNCHANGED <<procVars, vmVars, mmVars, lockVars, configData, clock>>

\* register_model, lines 53-64: the directory and metadata.json
RegWriteMetadata(t) ==
    /\ pc[t] = "reg_metadata"
    /\ metaFile' = [metaFile EXCEPT ![frame[t].target] = Some(DumpMetadata(frame[t].md))]
    /\ Goto(t, "reg_load")
    /\ UNCHANGED <<procVars, peerCache, registry, artFile, cache, mmVars, lockVars, configData, clock, frame, ret, e2e>>

\* line 68: registry = self._load_registry(...)
RegLoadRegistry(t) ==
    /\ pc[t] = "reg_load"
    /\ frame' = [frame EXCEPT ![t].reg = LoadRegistry(VM, frame[t].target[1])]
    /\ Goto(t, "reg_write")
    /\ UNCHANGED <<procVars, vmVars, mmVars, lockVars, configData, clock, ret, e2e>>

\* lines 70-82: the entry is set in the registry read and the file rewritten
RegWriteRegistry(t) ==
    /\ pc[t] = "reg_write"
    /\ LET md == frame[t].md
       IN  registry' = [registry EXCEPT ![md.model_type] =
                            OdSet(frame[t].reg, RegistryKey(md.name, md.version), RegistryInfo(md))]
    /\ Goto(t, "reg_cache")
    /\ UNCHANGED <<procVars, peerCache, metaFile, artFile, cache, mmVars, lockVars, configData, clock, frame, ret, e2e>>

\* lines 85-88: the cache entry, return True
RegCache(t) ==
    /\ pc[t] = "reg_cache"
    /\ LET md == frame[t].md
       IN  cache' = DictSet(cache, RegistryKey(md.name, md.version), md)
    /\ ReturnFrom(t, "register_model", <<frame[t].target>>, TRUE)
    /\ UNCHANGED <<procVars, peerCache, metaFile, registry, artFile, mmVars, lockVars, configData, clock, e2e>>

\* A thread calls delete_model_version for its artifact.
DeleteCall(t, a) ==
    /\ pc[t] = "idle"
    /\ frame' = [frame EXCEPT ![t] = RegFrame(a, None)]
    /\ pc' = [pc EXCEPT ![t] = "del_load"]
    /\ ret' = [ret EXCEPT ![t] = NoCall]
    /\ e2e' = 0
    /\ UNCHANGED <<procVars, vmVars, mmVars, lockVars, configData, clock>>

\* delete_model_version, line 164
DelLoadRegistry(t) ==
    /\ pc[t] = "del_load"
    /\ frame' = [frame EXCEPT ![t].reg = LoadRegistry(VM, frame[t].target[1])]
    /\ Goto(t, "del_write")
    /\ UNCHANGED <<procVars, vmVars, mmVars, lockVars, configData, clock, ret, e2e>>

\* lines 165-175: False for an unknown key, else the entry is removed from
\* the registry read and the file rewritten
DelWriteRegistry(t) ==
    /\ pc[t] = "del_write"
    /\ LET a == frame[t].target
           model_key == RegistryKey(a[2], a[3])
       IN  IF ~OdHas(frame[t].reg, model_key)
           THEN ReturnFrom(t, "delete_model_version", <<a>>, FALSE) /\ UNCHANGED registry
           ELSE /\ registry' = [registry EXCEPT ![a[1]] = OdDel(frame[t].reg, model_key)]
                /\ Goto(t, "del_rmtree")
                /\ UNCHANGED <<frame, ret>>
    /\ UNCHANGED <<procVars, peerCache, metaFile, artFile, cache, mmVars, lockVars, configData, clock, e2e>>

\* lines 178-180: the version directory is removed
DelRemoveDirectory(t) ==
    /\ pc[t] = "del_rmtree"
    /\ LET dir == get_model_directory(frame[t].target[1], frame[t].target[2], frame[t].target[3])
       IN  IF DirExists(VM, dir)
           THEN /\ metaFile' = [metaFile EXCEPT ![dir] = None]
                /\ artFile' = [artFile EXCEPT ![MockPath(dir)] = None]
           ELSE UNCHANGED <<metaFile, artFile>>
    /\ Goto(t, "del_cache")
    /\ UNCHANGED <<procVars, peerCache, registry, cache, mmVars, lockVars, configData, clock, frame, ret, e2e>>

\* lines 183-187: the cache entry is dropped, return True
DelCache(t) ==
    /\ pc[t] = "del_cache"
    /\ LET a == frame[t].target
       IN  /\ cache' = DictDel(cache, RegistryKey(a[2], a[3]))
           /\ ReturnFrom(t, "delete_model_version", <<a>>, TRUE)
    /\ UNCHANGED <<procVars, peerCache, metaFile, registry, artFile, mmVars, lockVars, configData, clock, e2e>>

RegistryStep(t) ==
    \/ RegWriteMetadata(t)
    \/ RegLoadRegistry(t)
    \/ RegWriteRegistry(t)
    \/ RegCache(t)
    \/ DelLoadRegistry(t)
    \/ DelWriteRegistry(t)
    \/ DelRemoveDirectory(t)
    \/ DelCache(t)

\* Each thread works on a version of its own of the parser "d".
ThreadArts == <<ParserV1, ParserV2, ParserV10>>
ThreadArt(t) == ThreadArts[((t - 1) % Len(ThreadArts)) + 1]

\* No thread has called yet.
NoneCalledYet == AllIdle /\ \A t \in Threads : ret[t].op \notin {"register_model", "delete_model_version"}
NotCalledYet(t) == ret[t].op \notin {"register_model", "delete_model_version"}

\* Versions are registered one call at a time; then every thread makes one
\* call, register_model or delete_model_version, for its own version.
NextReg ==
    \/ Call /\ NoneCalledYet /\ \E a \in {ParserV1, ParserV2, ParserV10} : RegisterFromFile(a, CfgOk)
    \/ NoCallMade /\ \E t \in Threads : NotCalledYet(t) /\ RegisterCall(t, ThreadArt(t))
    \/ NoCallMade /\ \E t \in Threads : NotCalledYet(t) /\ DeleteCall(t, ThreadArt(t))
    \/ NoCallMade /\ \E t \in Threads : RegistryStep(t)
    \/ NoCallMade /\ NoneCalledYet /\ Tick

SpecReg == Init /\ [][NextReg]_vars

\* C3 (as claimed): once a thread's register_model has returned true the
\* index of the type holds its name:version, and once a thread's
\* delete_model_version has returned true the index does not hold it,
\* whatever the other threads do to other keys of the same type.
C3_NoLostUpdate ==
    \A t \in Threads :
        (pc[t] = "idle" /\ ~NotCalledYet(t) /\ ret[t].res = TRUE)
            => LET a == ThreadArt(t)
                   present == OdHas(registry[a[1]], RegistryKey(a[2], a[3]))
               IN  IF ret[t].op = "register_model" THEN present ELSE ~present

-----------------------------------------------------------------------------
(* Registration and retrieval of metadata objects *)

RoundTripConfigs == {CfgEmpty, CfgOk, CfgList, CfgTuple}

\* The valid metadata objects a caller can build now for the files at hand.
MetadataObjects ==
    {[Val(create_model_metadata(artFile, clock, a[2], a[3], a[1], ExtPath(a), "local", FileMemoryMb, c)) EXCEPT !.status = st] :
        a \in {ParserV1, PrioV1}, c \in RoundTripConfigs, st \in {AVAILABLE, DEPRECATED}}

\* register_model and get_model_metadata, by the same version manager or by
\* a new one over the same directory.
NextRoundTrip ==
    \/ TrackedCall /\ \E md \in MetadataObjects : RegisterModel(md)
    \/ TrackedCall /\ \E a \in {ParserV1, PrioV1} : GetMetadata(a)
    \/ NoCallMade /\ NewVersionManager
    \/ NoCallMade /\ Tick

SpecRoundTrip == Init /\ [][NextRoundTrip]_vars

\* get_model_metadata was called right after register_model, for the type,
\* name and version of the metadata registered.
GotAfterRegister ==
    /\ ret[Main].op = "get_model_metadata"
    /\ prev.op = "register_model"
    /\ prev.res = TRUE
    /\ ret[Main].args[1] = <<prev.args[1].model_type, prev.args[1].name, prev.args[1].version>>

\* C7 (as claimed): get_model_metadata called right after register_model
\* returns a record equal to the registered one in every field, from the
\* cache as well as from metadata.json read by a new version manager.
C7_RoundTrip ==
    GotAfterRegister => ret[Main].res = Some(prev.args[1])

\* The round trip went through metadata.json read by a new version manager.
C7_ReadBack ==
    /\ GotAfterRegister
    /\ ret[Main].res = Some(prev.args[1])
    /\ prev.args[1].config = CfgList
    /\ prev.args[1].status = DEPRECATED
    /\ \E k \in DOMAIN cache : cache[k] = prev.args[1]
    /\ calls = 2

-----------------------------------------------------------------------------
(* The registry index and the versions of a name *)

StoreArts == {ParserV1, ParserV2, ParserV10, ParserDXY, ParserDxy}
StoreNames == {NameD, NameDX}

\* Versions of the parsers "d" and "d:x" are registered, updated, deleted
\* and listed, one call at a time.
NextStore ==
    \/ Call /\ \E a \in StoreArts : RegisterFromFile(a, CfgOk)
    \/ Call /\ \E a \in StoreArts : UpdateStatus(a, DEPRECATED)
    \/ Call /\ \E a \in StoreArts : DeleteVersion(a)
    \/ Call /\ \E name \in StoreNames : ListVersions(TASK_PARSER, name)
    \/ Call /\ \E name \in StoreNames : GetLatestVersion(TASK_PARSER, name)
    \/ NoCallMade /\ Tick

SpecStore == Init /\ [][NextStore]_vars

\* The versions of a name that are registered: their metadata.json exists.
RegisteredVersions(model_type, name) ==
    {a[3] : a \in {b \in AllArts : b[1] = model_type /\ b[2] = name /\ Registered(b)}}

\* A sequence without repetition in descending string order
IsDescending(versions) ==
    \A i, j \in DOMAIN versions : i < j => StrLess(versions[j], versions[i])

\* C8 (as claimed): list_versions returns the registered versions of the
\* name in descending string order, and get_latest_version returns the
\* first of them, or None when there is none.
C8_VersionOrder ==
    /\ ret[Main].op = "list_versions"
        => /\ {ret[Main].res[i] : i \in DOMAIN ret[Main].res} = RegisteredVersions(ret[Main].args[1], ret[Main].args[2])
           /\ IsDescending(ret[Main].res)
    /\ ret[Main].op = "get_latest_version"
        => LET versions == RegisteredVersions(ret[Main].args[1], ret[Main].args[2])
           IN  IF versions = {} THEN IsNone(ret[Main].res)
               ELSE /\ ~IsNone(ret[Main].res)
                    /\ Val(ret[Main].res) \in versions
                    /\ \A v \in versions : v = Val(ret[Main].res) \/ StrLess(v, Val(ret[Main].res))

\* v1, v2 and v10 of "d" are registered and v2 is answered as the latest.
C8_LatestIsV2 ==
    /\ ret[Main].op = "get_latest_version"
    /\ ret[Main].args = <<TASK_PARSER, NameD>>
    /\ RegisteredVersions(TASK_PARSER, NameD) = {V1, V2, V10}
    /\ ret[Main].res = Some(V2)

\* C9 (as claimed): the index of a type has the entry name:version exactly
\* for the versions whose metadata.json exists, and the status and
\* updated_at of the entry are those of that metadata.json.
C9_IndexConsistent ==
    /\ \A a \in AllArts :
        LET model_key == RegistryKey(a[2], a[3])
            index == registry[a[1]]
            entered == /\ OdHas(index, model_key)
                       /\ OdGet(index, model_key).name = a[2]
                       /\ OdGet(index, model_key).version = a[3]
        IN  /\ Registered(a) <=> entered
            /\ Registered(a) /\ entered
                => /\ OdGet(index, model_key).status = Val(metaFile[a]).status
                   /\ FromIsoFormat(OdGet(index, model_key).updated_at) = FromIsoFormat(Val(metaFile[a]).updated_at)
    /\ \A mt \in ModelType : \A k \in OdKeys(registry[mt]) :
        \E a \in AllArts : a[1] = mt /\ RegistryKey(a[2], a[3]) = k

\* A status update after time has passed is in the index and in the file.
C9_UpdatedBoth ==
    /\ ret[Main].op = "update_model_status"
    /\ ret[Main].res = TRUE
    /\ clock > 0
    /\ Registered(ParserV1)
    /\ OdGet(registry[TASK_PARSER], RegistryKey(NameD, V1)).status = DEPRECATED
    /\ Val(metaFile[ParserV1]).status = DEPRECATED
    /\ FromIsoFormat(Val(metaFile[ParserV1]).updated_at) = clock

-----------------------------------------------------------------------------
(* Reconciling a configuration, loading the latest version, memory usage *)

\* Calls of the configuration loader and the model manager, one at a time;
\* e2e counts the calls of the sequence initialize_models_from_config on an
\* empty version manager, load_model(TASK_PARSER, "d"), get_memory_usage,
\* unload_model(TASK_PARSER, "d", "v1") made in a row so far.
NextE2E ==
    \/ Call /\ Reconcile
    \/ Call /\ \E doc \in ConfigFiles \cup {DefaultConfig} : configData # doc /\ LoadConfig(doc)
    \/ Call /\ LoadCall(Main, TASK_PARSER, NameD, None)
    \/ NoCallMade /\ LoadStep(Main)
    \/ Call /\ GetMemoryUsage
    \/ Call /\ \E a \in {ParserV1, PrioV1} : Unload(a)
    \/ Call /\ RegisterFromFile(ParserV2, CfgOk)
    \/ NoCallMade /\ Tick

SpecE2E == Init /\ [][NextE2E]_vars

\* C10: in the sequence started on an empty version manager with the
\* default configuration, initialize_models_from_config returns
\* {task_parser:d:v1: True}; load_model without a version returns True and
\* the key is loaded; get_memory_usage reports 1 model, 128 MB in total and
\* on average; unload_model returns True and the key is not loaded.
C10_EndToEnd ==
    /\ (e2e = 1 /\ pc[Main] = "idle")
        => /\ ret[Main].op = "initialize_models_from_config"
           /\ ret[Main].res = DictSet(EmptyDict, get_model_key(TASK_PARSER, NameD, V1), TRUE)
    /\ e2e = 2
        => /\ ret[Main].op = "load_model"
           /\ ret[Main].res = TRUE
           /\ is_model_loaded(TASK_PARSER, NameD, V1)
    /\ e2e = 3
        => /\ ret[Main].op = "get_memory_usage"
           /\ ret[Main].res.loaded_models_count = 1
           /\ ret[Main].res.total_memory_mb = MockMemoryMb
           /\ ret[Main].res.average_memory_per_model_mb[1] = MockMemoryMb * ret[Main].res.average_memory_per_model_mb[2]
    /\ e2e = 4
        => /\ ret[Main].op = "unload_model"
           /\ ret[Main].res = TRUE
           /\ ~is_model_loaded(TASK_PARSER, NameD, V1)

\* The whole sequence has been made.
C10_SequenceDone == e2e = 4 /\ ret[Main].op = "unload_model" /\ calls = 4

-----------------------------------------------------------------------------
(* Reconciliation of configuration documents into one version manager *)

ReconcileConfigs == {DefaultConfig, TwoTypeConfig, MixedConfig}

\* Documents are loaded and reconciled, an artifact of a document is
\* registered, updated or deleted by hand, and time passes.
NextReconcile ==
    \/ TrackedCall /\ Reconcile
    \/ Call /\ \E doc \in ReconcileConfigs : LoadConfig(doc)
    \/ Call /\ RegisterFromFile(ParserV10, CfgOk)
    \/ Call /\ UpdateStatus(ParserV1, DEPRECATED)
    \/ Call /\ DeleteVersion(ParserV1)
    \/ NoCallMade /\ Tick

SpecReconcile == Init /\ [][NextReconcile]_vars

\* The step is a reconcile call made right after a reconcile call returned.
SecondReconcile ==
    /\ ret[Main].op = "initialize_models_from_config"
    /\ ret'[Main].op = "initialize_models_from_config"
    /\ calls' = calls + 1

\* C11: reconciling a second time against the same version manager answers
\* true for every key that was true the first time and writes nothing: every
\* metadata.json, every index and every artifact file stays as it was (so
\* created_at, updated_at and status are unchanged).
C11_ReconcileIdempotent ==
    [][SecondReconcile =>
        /\ \A k \in DOMAIN ret[Main].res : ret[Main].res[k] => (k \in DOMAIN ret'[Main].res /\ ret'[Main].res[k])
        /\ metaFile' = metaFile
        /\ registry' = registry
        /\ artFile' = artFile]_vars

\* Two reconcile calls in a row were made, the first registered the mock
\* version of MixedConfig, and the clock moved in between or before.
C11_Witness ==
    /\ ret[Main].op = "initialize_models_from_config"
    /\ prev.op = "initialize_models_from_config"
    /\ get_model_key(TASK_PARSER, NameD, V2) \in DOMAIN prev.res
    /\ prev.res[get_model_key(TASK_PARSER, NameD, V2)]
    /\ ~IsNone(metaFile[ParserV2])
    /\ clock > FromIsoFormat(Val(metaFile[ParserV2]).created_at)

\* The key of every version a document declares, whatever its type string.
RECURSIVE DeclaredKeys(_)
DeclaredKeys(defs) ==
    IF Len(defs) = 0 THEN {}
    ELSE LET decls == DeclaredModels(Head(defs).type, Head(defs).models)
         IN  {get_model_key(decls[i].type, decls[i].name, decls[i].version) : i \in 1 .. Len(decls)} \cup DeclaredKeys(Tail(defs))

\* C12: reconcile returns one result entry for every version the document
\* declares; a declaration under an unrecognized artifact type, or one whose
\* source is not "mock" and that is not registered, has the entry false.
C12_EntryPerDeclaration ==
    ret[Main].op = "initialize_models_from_config" =>
        /\ DeclaredKeys(configData.model_definitions) \subseteq DOMAIN ret[Main].res
        /\ \A k \in DeclaredKeys(configData.model_definitions) : k[1] \notin ModelType => ~ret[Main].res[k]

\* A reconcile of MixedConfig returned and its later declarations were
\* reconciled: the mock version is registered, the other one is false.
C12_Witness ==
    /\ ret[Main].op = "initialize_models_from_config"
    /\ configData = MixedConfig
    /\ get_model_key(TASK_PARSER, NameD, V2) \in DOMAIN ret[Main].res
    /\ ret[Main].res[get_model_key(TASK_PARSER, NameD, V2)]
    /\ get_model_key(TASK_PARSER, NameD, V10) \in DOMAIN ret[Main].res

-----------------------------------------------------------------------------
(* Loading, processing, unloading and the cleanup sweep of one manager *)

SweepArts == {ParserV1, ParserDxy}

\* Two parser artifacts, one with a ":" in its version, are registered (once each), loaded, unloaded
\* and swept while time passes.
NextSweep ==
    \/ NoCallMade /\ \E a \in SweepArts : IsNone(metaFile[a]) /\ RegisterFromFile(a, CfgOk)
    \/ NoCallMade /\ \E a \in SweepArts : LoadCall(Main, a[1], a[2], Some(a[3]))
    \/ NoCallMade /\ LoadStep(Main)
    \/ Remembered /\ Unload(ParserV1)
    \/ Remembered /\ \E d \in 0 .. MaxClock : Cleanup(d)
    \/ NoCallMade /\ Tick

SpecSweep == Init /\ [][NextSweep]_vars

\* The step is the call of op with the arguments args, made by the caller
\* while nothing else is running.
CallStep(op, args) ==
    /\ AllIdle
    /\ pc' = pc
    /\ clock' = clock
    /\ ret'[Main].op = op
    /\ ret'[Main].args = args

\* The parser v1 is registered, loaded, used with and without naming the
\* version (the processing calls are the calls counted), asked for its
\* statistics and unloaded; the other artifact is never loaded.
NextUnload ==
    \/ NoCallMade /\ IsNone(metaFile[ParserV1]) /\ RegisterFromFile(ParserV1, CfgOk)
    \/ NoCallMade /\ LoadCall(Main, TASK_PARSER, NameD, Some(V1))
    \/ NoCallMade /\ LoadStep(Main)
    \/ Call /\ \E v \in {None, Some(V1)}, r \in BOOLEAN : Process(ProcessParsing, ArgsOf(1, None, v), r)
    \/ NoCallMade /\ GetPerformanceStats
    \/ Remembered /\ \E a \in SweepArts : Unload(a)

SpecUnload == Init /\ [][NextUnload]_vars

\* C13: an unload of a loaded key returns true, and then the key is not
\* loaded, is in none of the loaded, config and load-time tables, and
\* get_performance_stats has no entry for it; an unload of a key that is
\* not loaded returns false and changes nothing.
C13_UnloadClears ==
    [][\A a \in SweepArts : CallStep("unload_model", <<a>>) =>
        IF KeyOf(a) \in DOMAIN loadedModels
        THEN /\ ret'[Main].res = TRUE
             /\ KeyOf(a) \notin DOMAIN loadedModels'
             /\ KeyOf(a) \notin DOMAIN modelConfigs'
             /\ KeyOf(a) \notin DOMAIN loadTimes'
             /\ KeyOf(a) \notin DOMAIN get_performance_stats'
             /\ \A k \in DOMAIN loadedModels \ {KeyOf(a)} : k \in DOMAIN loadedModels'
        ELSE /\ ret'[Main].res = FALSE
             /\ UNCHANGED <<vmVars, mmVars, lockVars, procVars>>]_vars

\* The parser v1 was used under its version, so that samples were filed
\* under its key, and then unloaded.
C13_Witness ==
    /\ ret[Main].op = "unload_model"
    /\ ret[Main].args = <<ParserV1>>
    /\ ret[Main].res = TRUE
    /\ prev.op = ProcessParsing
    /\ prev.args[1].version = Some(V1)
    /\ prev.res.kind = "result"
    /\ KeyOf(ParserV1) \notin DOMAIN inferenceStats
    /\ get_model_key(TASK_PARSER, NameD, Latest) \in DOMAIN inferenceStats

\* C14: cleanup_old_models(max_age_days) unloads exactly the loaded keys
\* whose load time is older than now - max_age_days; every other loaded key
\* stays loaded with its record, config and load time unchanged.
C14_SweepExact ==
    [][\A d \in 0 .. MaxClock : CallStep("cleanup_old_models", <<d>>) =>
        /\ DOMAIN loadedModels' = {k \in DOMAIN loadedModels : ~(loadTimes[k] < clock - d)}
        /\ \A k \in DOMAIN loadedModels' :
            /\ loadedModels'[k] = loadedModels[k]
            /\ modelConfigs'[k] = modelConfigs[k]
            /\ loadTimes'[k] = loadTimes[k]
        /\ DOMAIN modelConfigs' = DOMAIN loadedModels'
        /\ DOMAIN loadTimes' = DOMAIN loadedModels']_vars

\* A sweep unloaded the parser v1, loaded a day before, and kept the other artifact.
C14_Witness ==
    /\ ret[Main].op = "cleanup_old_models"
    /\ prev.op = "load_model"
    /\ prev.res = TRUE
    /\ DOMAIN loadedModels = {KeyOf(ParserDxy)}
    /\ loadTimes[KeyOf(ParserDxy)] = clock
    /\ DOMAIN loadingLocks = {KeyOf(ParserV1), KeyOf(ParserDxy)}
    /\ ~(\E t \in Threads : ret[t].op = "unload_model")

-----------------------------------------------------------------------------
(* Validation of configuration documents *)

\* Version definitions with and without the two required fields.
ValidateDefs ==
    {[model_source |-> "mock", memory_requirement_mb |-> MockMemoryMb],
     [model_source |-> "mock"],
     [memory_requirement_mb |-> MockMemoryMb],
     [description |-> "Incomplete model"]}

\* The versions maps: none, an empty one, v1 alone, v1 and v2.
ValidateVersionMaps ==
    {None, Some(<< >>)}
    \cup {Some(<<[version |-> V1, def |-> d]>>) : d \in ValidateDefs}
    \cup {Some(<<[version |-> V1, def |-> [model_source |-> "mock", memory_requirement_mb |-> MockMemoryMb]], [version |-> V2, def |-> d]>>) : d \in ValidateDefs}

\* The default versions: none, the empty string, a key, a string that is no key.
ValidateDefaults == {None, Some(<< >>), Some(V1), Some(V10)}

ModelDef(name, versions, default_version) ==
    [name |-> name]
    @@ (IF IsNone(versions) THEN << >> ELSE [versions |-> Val(versions)])
    @@ (IF IsNone(default_version) THEN << >> ELSE [default_version |-> Val(default_version)])

CompleteBlock == [type |-> PRIORITIZER, models |-> <<ModelDef(NameD, Some(<<[version |-> V1, def |-> [model_source |-> "mock", memory_requirement_mb |-> MockMemoryMb]]>>), Some(V1))>>]

\* Documents: the empty one, one without model_definitions, and documents
\* with one name under a known or an unknown type, alone or before or
\* after a complete declaration.
ValidateDocs ==
    {EmptyDict, [global_config |-> EmptyDict]}
    \cup {[model_definitions |-> blocks, global_config |-> EmptyDict] :
            blocks \in UNION {{<<[type |-> t, models |-> <<ModelDef(NameD, vs, dv)>>]>>,
                               <<[type |-> t, models |-> <<ModelDef(NameD, vs, dv)>>], CompleteBlock>>,
                               <<[type |-> t, models |-> <<ModelDef(NameDX, vs, dv), ModelDef(NameD, Some(<< >>), Some(V2))>>]>>} :
                              t \in {TASK_PARSER, "vision"}, vs \in ValidateVersionMaps, dv \in ValidateDefaults}}

NextValidate ==
    \/ NoCallMade /\ \E doc \in ValidateDocs : LoadConfig(doc)
    \/ NoCallMade /\ Validate

SpecValidate == Init /\ [][NextValidate]_vars

\* The errors validate_config returned, as a set.
Errors == {ret[Main].res[i] : i \in 1 .. Len(ret[Main].res)}
Reported(kind, parts) == ErrorMsg(kind, parts) \in Errors

\* All the names a document declares, each with the type string it is under.
DeclaredNames(defs) == UNION {{<<defs[i].type, defs[i].models[j]>> : j \in 1 .. Len(defs[i].models)} : i \in 1 .. Len(defs)}

\* C15: validate_config reports every violation of the document: for every
\* declared name a missing versions map and a missing default_version each,
\* a default_version that is no key of versions, and every version entry
\* without model_source or without memory_requirement_mb, whatever else is
\* wrong with the document.
C15_AllViolationsReported ==
    (ret[Main].op = "validate_config" /\ "model_definitions" \in DOMAIN configData) =>
        \A tm \in DeclaredNames(configData.model_definitions) :
            LET type == tm[1]
                model_def == tm[2]
            IN  /\ "versions" \notin DOMAIN model_def => Reported("Missing versions", <<<<type>>, model_def.name>>)
                /\ "default_version" \notin DOMAIN model_def => Reported("Missing default_version", <<<<type>>, model_def.name>>)
                /\ ("versions" \in DOMAIN model_def /\ "default_version" \in DOMAIN model_def /\ model_def.default_version \notin VersionKeys(model_def.versions))
                        => Reported("Default version not found in versions", <<model_def.default_version, <<type>>, model_def.name>>)
                /\ "versions" \in DOMAIN model_def =>
                        \A i \in 1 .. Len(model_def.versions) :
                            /\ "model_source" \notin DOMAIN model_def.versions[i].def => Reported("Missing model_source", <<<<type>>, model_def.name, model_def.versions[i].version>>)
                            /\ "memory_requirement_mb" \notin DOMAIN model_def.versions[i].def => Reported("Missing memory_requirement_mb", <<<<type>>, model_def.name, model_def.versions[i].version>>)

\* Several violations of one name were reported in one pass.
C15_Witness ==
    /\ ret[Main].op = "validate_config"
    /\ Reported("Missing default_version", <<<<TASK_PARSER>>, NameD>>)
    /\ Reported("Missing model_source", <<<<TASK_PARSER>>, NameD, V2>>)
    /\ Reported("Missing memory_requirement_mb", <<<<TASK_PARSER>>, NameD, V2>>)

\* The message holds the string: it is one of the strings put into the
\* message (the empty string is held by every message).
Contains(e, str) == str = << >> \/ \E i \in 1 .. Len(e.parts) : e.parts[i] = str

\* Every type is recognized, every name has a versions map and a
\* default_version that is one of its keys, and every version entry has
\* model_source and memory_requirement_mb.
StructurallyComplete(defs) ==
    \A tm \in DeclaredNames(defs) :
        /\ tm[1] \in ModelType
        /\ "versions" \in DOMAIN tm[2]
        /\ "default_version" \in DOMAIN tm[2]
        /\ tm[2].default_version \in VersionKeys(tm[2].versions)
        /\ \A i \in 1 .. Len(tm[2].versions) : {"model_source", "memory_requirement_mb"} \subseteq DOMAIN tm[2].versions[i].def

\* C16: validate_config returns at least one error for a document without
\* model_definitions (the empty document included); for every name whose
\* default_version is no key of its versions map it returns an error that
\* holds that default_version string; for a structurally complete document
\* it returns no error.
C16_ValidateComplete ==
    ret[Main].op = "validate_config" =>
        /\ "model_definitions" \notin DOMAIN configData => Len(ret[Main].res) >= 1
        /\ "model_definitions" \in DOMAIN configData =>
            /\ \A tm \in DeclaredNames(configData.model_definitions) :
                    ("versions" \in DOMAIN tm[2] /\ "default_version" \in DOMAIN tm[2] /\ tm[2].default_version \notin VersionKeys(tm[2].versions))
                        => \E e \in Errors : Contains(e, tm[2].default_version)
            /\ StructurallyComplete(configData.model_definitions) => ret[Main].res = << >>

\* A mismatched default_version under a known type was reported with its string.
C16_Witness ==
    /\ ret[Main].op = "validate_config"
    /\ Reported("Default version not found in versions", <<V10, <<TASK_PARSER>>, NameD>>)

-----------------------------------------------------------------------------
(* The processing entry points of one manager *)

\* The parser default/v1 is registered from a file or by reconciling the
\* default configuration, and the three entry points are called with
\* inputs the analyzers accept or raise on.
NextProcess ==
    \/ Call /\ RegisterFromFile(ParserV1, CfgOk)
    \/ Call /\ Reconcile
    \/ Call /\ \E r \in BOOLEAN : Process(ProcessParsing, ArgsOf(1, None, None), r)
    \/ Call /\ \E x \in JsonTexts, r \in BOOLEAN : Process(ProcessPrioritization, ArgsOf(x, None, None), r)
    \/ Call /\ \E x \in {JsonTasks, JsonBroken}, r \in BOOLEAN : Process(ProcessInsights, ArgsOf(x, None, Some(V1)), r)

SpecProcess == Init /\ [][NextProcess]_vars

\* The step is a call of a processing entry point.
ProcessStep ==
    /\ AllIdle
    /\ pc' = pc
    /\ calls' = calls + 1
    /\ ret'[Main].op \in EntryPoints

\* The body ran in the step (the call was no cache hit) and the analyzer
\* raised or the input could not be decoded.
FailureInStep ==
    /\ ProcessStep
    /\ lruCache'[ret'[Main].op].misses = lruCache[ret'[Main].op].misses + 1
    /\ \/ ret'[Main].args[2]
       \/ ret'[Main].op # ProcessParsing /\ IsNone(json_loads(ret'[Main].args[1].input))

\* The confidence of a fallback result is at most 0.3 (in tenths).
LowConfidence == 3

C18_ProcessingLoads ==
    (ret[Main].op = ProcessParsing /\ Registered(ParserV1) /\ IntegrityOk(ParserV1)) => Loaded(ParserV1)

\* The parsing entry point was called with the default parser registered.
C18_Witness ==
    /\ ret[Main].op = ProcessParsing
    /\ Registered(ParserV1)
    /\ IntegrityOk(ParserV1)
    /\ ret[Main].res.kind = "result"

\* C19: a call of the parsing entry point on a manager with no parser
\* artifact registered or loaded fails with a ValueError ("Failed to load
\* ... model").
C19_ProcessingWithoutModelRaises ==
    (ret[Main].op = ProcessParsing /\ registry[TASK_PARSER] = << >> /\ loadedModels = EmptyDict) => ret[Main].res.kind = "ValueError"

\* The parsing entry point was called on an empty manager and answered.
C19_Witness ==
    /\ ret[Main].op = ProcessParsing
    /\ EmptyVersionManager
    /\ loadedModels = EmptyDict
    /\ ~ret[Main].args[2]
    /\ ret[Main].res.kind = "result"

-----------------------------------------------------------------------------
(* The result cache of the parsing entry point *)

NextCache ==
    \/ Call /\ \E x \in Texts, r \in BOOLEAN : Process(ProcessParsing, ArgsOf(x, None, None), r)
    \/ Call /\ Process(ProcessParsing, ArgsOf(1, None, Some(V1)), FALSE)

SpecCache == Init /\ [][NextCache]_vars

\* The distinct arguments of the calls h, from the least to the most
\* recently asked.
RECURSIVE Recency(_)
Recency(h) ==
    IF Len(h) = 0 THEN << >>
    ELSE LET x == h[Len(h)]
             before == Recency(SubSeq(h, 1, Len(h) - 1))
         IN  Append(SelectSeq(before, LAMBDA y : y # x), x)

\* The keys the cache of an entry point holds, in its order.
CachedKeys(ep) == [i \in 1 .. Len(lruCache[ep].entries) |-> lruCache[ep].entries[i].key]

\* The arguments a least-recently-used cache of CacheSize entries holds
\* after the calls made so far.
MostRecent(ep) == LastN(Recency(asked[ep]), CacheSize)

\* C20: the cache of an entry point never holds more than its capacity, and
\* what it holds are the most recently used arguments (a full cache drops the
\* least recently used entry); a call whose arguments are not among them,
\* such as the first of capacity + k distinct inputs asked again, is a miss
\* that runs the body again.
C20_LruBounded ==
    [][/\ Len(lruCache'[ProcessParsing].entries) <= CacheSize
       /\ CachedKeys(ProcessParsing)' = MostRecent(ProcessParsing)'
       /\ (ProcessStep /\ ret'[Main].op = ProcessParsing) =>
            IF \E i \in 1 .. Len(MostRecent(ProcessParsing)) : MostRecent(ProcessParsing)[i] = ret'[Main].args[1]
            THEN /\ lruCache'[ProcessParsing].hits = lruCache[ProcessParsing].hits + 1
                 /\ metrics' = metrics
            ELSE /\ lruCache'[ProcessParsing].misses = lruCache[ProcessParsing].misses + 1
                 /\ Len(metrics') = Len(metrics) + 1]_vars

\* CacheSize + 1 distinct inputs were asked and then the first one again,
\* which was computed again.
C20_Witness ==
    /\ Len(asked[ProcessParsing]) = CacheSize + 2
    /\ asked[ProcessParsing][1] = asked[ProcessParsing][CacheSize + 2]
    /\ Len(Recency(asked[ProcessParsing])) = CacheSize + 1
    /\ lruCache[ProcessParsing].hits = 0
    /\ lruCache[ProcessParsing].misses = CacheSize + 2
    /\ Len(lruCache[ProcessParsing].entries) = CacheSize

-----------------------------------------------------------------------------
(* The keys of the result caches *)

\* The parser is asked for two texts, with and without naming the version,
\* and once under another artifact name; the other two entry points are
\* asked for one input each; every cache may be cleared at any time.
KeyedArgs == {ArgsOf(x, None, v) : x \in 1 .. 2, v \in {None, Some(V1)}} \cup {ArgsOf(1, Some(NameDX), None)}

NextKeyed ==
    \/ Call /\ \E args \in KeyedArgs : Process(ProcessParsing, args, FALSE)
    \/ Call /\ Process(ProcessPrioritization, ArgsOf(JsonTasks, None, None), FALSE)
    \/ Call /\ \E r \in BOOLEAN : Process(ProcessInsights, ArgsOf(JsonTasks, None, None), r)
    \/ NoCallMade /\ \E ep \in EntryPoints : CacheClear(ep)

SpecKeyed == Init /\ [][NextKeyed]_vars

\* The value the cache of an entry point holds for a key
CachedValue(c, key) == c.entries[LruIndex(c.entries, key, 1)].value
IsCached(c, key) == LruIndex(c.entries, key, 1) > 0

\* C21: the result caches are keyed by (input, artifact name, version) and
\* are separate per entry point.  A call to one entry point leaves the
\* caches and the counters of the other two alone.  While the distinct keys
\* asked of an entry point since its cache was cleared are within the
\* capacity, the misses are exactly these distinct keys (K distinct inputs
\* are K misses and no hit, the same input under another version or name is
\* a miss of its own), every repetition is a hit, and a hit answers the value
\* the first call with that key stored, which stays stored.
C21_CacheKeyed ==
    [][ProcessStep =>
        LET ep == ret'[Main].op
            args == ret'[Main].args[1]
            seen == \E i \in 1 .. Len(asked[ep]) : asked[ep][i] = args
            distinct == Len(Recency(asked'[ep]))
        IN  /\ \A other \in EntryPoints \ {ep} : lruCache'[other] = lruCache[other]
            /\ distinct <= CacheSize =>
                /\ lruCache'[ep].misses = distinct
                /\ lruCache'[ep].hits = Len(asked'[ep]) - distinct
                /\ IsCached(lruCache'[ep], args)
                /\ CachedValue(lruCache'[ep], args) = ret'[Main].res
                /\ seen => ret'[Main].res = CachedValue(lruCache[ep], args)
                /\ \A i \in 1 .. Len(asked[ep]) : CachedValue(lruCache'[ep], asked[ep][i]) = CachedValue(lruCache[ep], asked[ep][i])]_vars

\* As many distinct keys as the cache holds were asked and then repeated,
\* two of them with the same input under different versions.
C21_Witness ==
    /\ Len(asked[ProcessParsing]) = 2 * CacheSize
    /\ lruCache[ProcessParsing].misses = CacheSize
    /\ lruCache[ProcessParsing].hits = CacheSize
    /\ \E i, j \in 1 .. Len(asked[ProcessParsing]) :
        /\ asked[ProcessParsing][i].input = asked[ProcessParsing][j].input
        /\ asked[ProcessParsing][i].version # asked[ProcessParsing][j].version
    /\ ret[Main].op = ProcessParsing
    /\ ret[Main].res = [kind |-> "result", of |-> ret[Main].args[1].input]

-----------------------------------------------------------------------------
(* The rolling window of latency samples *)

ParserLatestKey == get_model_key(TASK_PARSER, NameD, Latest)
PrioLatestKey == get_model_key(PRIORITIZER, NameD, Latest)
SamplesOf(k) == IF k \in DOMAIN recorded THEN recorded[k] ELSE << >>

\* Samples of 0 ms and of 1 ms are recorded for the parser key until the
\* window has overflowed, at most one of them slow at a time; the prioritizer
\* key gets a single sample; the statistics are read at any time.
NextWindow ==
    \/ /\ NoCallMade
       /\ Len(SamplesOf(ParserLatestKey)) < MaxSamples + MaxClock
       /\ TrackInferenceTime(ParserLatestKey, 0)
    \/ /\ NoCallMade
       /\ Len(SamplesOf(ParserLatestKey)) < MaxSamples + MaxClock
       /\ \A i \in 1 .. Len(SamplesOf(ParserLatestKey)) : SamplesOf(ParserLatestKey)[i] = 0
       /\ TrackInferenceTime(ParserLatestKey, 1)
    \/ /\ NoCallMade
       /\ PrioLatestKey \notin DOMAIN recorded
       /\ TrackInferenceTime(PrioLatestKey, 1)
    \/ NoCallMade /\ GetPerformanceStats

SpecWindow == Init /\ [][NextWindow]_vars

\* The most recent samples of a history, MaxSamples of them at most, in the
\* order they were recorded.
MostRecentSamples(h) ==
    LET n == IF Len(h) > MaxSamples THEN MaxSamples ELSE Len(h)
    IN  [i \in 1 .. n |-> h[Len(h) - n + i]]
Least(xs) == CHOOSE x \in {xs[i] : i \in 1 .. Len(xs)} : \A i \in 1 .. Len(xs) : x <= xs[i]
Greatest(xs) == CHOOSE x \in {xs[i] : i \in 1 .. Len(xs)} : \A i \in 1 .. Len(xs) : x >= xs[i]

\* C22: for every key the window never holds more than 100 samples and is
\* the most recent (up to 100) samples recorded for the key, in recording
\* order (the oldest is dropped first); get_performance_stats reports, for
\* each key with samples, the average, minimum, maximum and count of exactly
\* that window.
C22_RollingWindow ==
    [][/\ DOMAIN inferenceStats' = DOMAIN recorded'
       /\ \A k \in DOMAIN recorded' :
            /\ Len(inferenceStats'[k]) <= MaxSamples
            /\ inferenceStats'[k] = MostRecentSamples(recorded'[k])
       /\ CallStep("get_performance_stats", << >>) =>
            /\ DOMAIN ret'[Main].res = DOMAIN recorded
            /\ \A k \in DOMAIN recorded :
                LET window == MostRecentSamples(recorded[k])
                IN  ret'[Main].res[k] = [avg_inference_time_ms |-> <<SumSeq(window), Len(window)>>,
                                         min_inference_time_ms |-> Least(window),
                                         max_inference_time_ms |-> Greatest(window),
                                         total_inferences |-> Len(window)]]_vars

\* One sample more than the window holds was recorded for the parser key,
\* the first of them the slow one, and the statistics read afterwards no
\* longer show it.
C22_Witness ==
    /\ Len(SamplesOf(ParserLatestKey)) = MaxSamples + 1
    /\ SamplesOf(ParserLatestKey)[1] = 1
    /\ ret[Main].op = "get_performance_stats"
    /\ ret[Main].res[ParserLatestKey].total_inferences = MaxSamples
    /\ ret[Main].res[ParserLatestKey].max_inference_time_ms = 0
    /\ PrioLatestKey \in DOMAIN ret[Main].res

-----------------------------------------------------------------------------
(* Memory usage after loads and unloads *)

\* The default configuration is reconciled (the mock parser d/v1, 128 MB), a
\* prioritizer d/v1 is registered from a file (256 MB), both are loaded and
\* unloaded, and the memory usage is read at any time.
NextMemory ==
    \/ Call /\ Reconcile
    \/ Call /\ IsNone(metaFile[PrioV1]) /\ RegisterFromFile(PrioV1, CfgOk)
    \/ Call /\ \E a \in {ParserV1, PrioV1} : LoadCall(Main, a[1], a[2], Some(a[3]))
    \/ NoCallMade /\ LoadStep(Main)
    \/ Call /\ \E a \in {ParserV1, PrioV1} : Unload(a)
    \/ Call /\ GetMemoryUsage

SpecMemory == Init /\ [][NextMemory]_vars

\* The memory requirement an artifact was registered with (its metadata.json)
RECURSIVE RegisteredMemory(_)
RegisteredMemory(arts) ==
    IF arts = {} THEN 0
    ELSE LET a == CHOOSE x \in arts : TRUE
         IN  Val(metaFile[a]).memory_requirement_mb + RegisteredMemory(arts \ {a})

LoadedArts == {a \in AllArts : Loaded(a)}

\* C23 (as claimed): after any loads and unloads, get_memory_usage reports
\* the number of loaded keys, the sum of the memory requirements of exactly
\* the loaded artifacts, and their quotient as the average (0 when nothing
\* is loaded).
C23_MemoryOfLoaded ==
    [][CallStep("get_memory_usage", << >>) =>
        /\ ret'[Main].res.loaded_models_count = Cardinality(DOMAIN loadedModels)
        /\ ret'[Main].res.loaded_models_count = Cardinality(LoadedArts)
        /\ \A a \in LoadedArts : ~IsNone(metaFile[a])
        /\ ret'[Main].res.total_memory_mb = RegisteredMemory(LoadedArts)
        /\ ret'[Main].res.average_memory_per_model_mb =
            IF LoadedArts = {} THEN <<0, 1>> ELSE <<RegisteredMemory(LoadedArts), Cardinality(LoadedArts)>>]_vars

\* The usage was read with the mock parser loaded and reported its 128 MB.
C23_Witness ==
    /\ ret[Main].op = "get_memory_usage"
    /\ LoadedArts = {ParserV1}
    /\ ret[Main].res.loaded_models_count = 1
    /\ ret[Main].res.total_memory_mb = MockMemoryMb
    /\ ret[Main].res.average_memory_per_model_mb = <<MockMemoryMb, 1>>

-----------------------------------------------------------------------------
(* Shutting the manager down *)

\* A parser artifact with a ":" in its version and a prioritizer are
\* registered (once each) and loaded (the loads are the calls counted) while
\* time passes; the manager is shut down at any time between two calls.
ShutdownArts == {ParserDxy, PrioV1}

NextShutdown ==
    \/ NoCallMade /\ \E a \in ShutdownArts : IsNone(metaFile[a]) /\ RegisterFromFile(a, CfgOk)
    \/ Call /\ \E a \in ShutdownArts : LoadCall(Main, a[1], a[2], Some(a[3]))
    \/ NoCallMade /\ LoadStep(Main)
    \/ Remembered /\ Shutdown
    \/ NoCallMade /\ Tick

SpecShutdown == Init /\ [][NextShutdown]_vars

\* C24: when shutdown returns no artifact is loaded: the loaded table, the
\* config table and the load-time table are empty, whatever was loaded
\* before.
C24_ShutdownUnloadsAll ==
    [][CallStep("shutdown", << >>) =>
        /\ loadedModels' = EmptyDict
        /\ modelConfigs' = EmptyDict
        /\ loadTimes' = EmptyDict
        /\ \A a \in AllArts : ~Loaded(a)']_vars

\* The manager was shut down right after the load that made two keys
\* loaded, one of them loaded a day before.
C24_Witness ==
    /\ ret[Main].op = "shutdown"
    /\ prev.op = "load_model"
    /\ prev.res = TRUE
    /\ clock = MaxClock
    /\ \E a \in ShutdownArts : Registered(a) /\ ~IsNone(MetadataOf(a)) /\ StatusOf(a) = AVAILABLE /\ FromIsoFormat(Val(metaFile[a]).updated_at) < clock
    /\ DOMAIN loadingLocks = {KeyOf(a) : a \in ShutdownArts}
    /\ loadedModels = EmptyDict
    /\ modelConfigs = EmptyDict
    /\ loadTimes = EmptyDict

-----------------------------------------------------------------------------
(* Loading the configuration file *)

\* The configuration file is absent, malformed, or holds one of two
\* documents when it is (re)loaded; the configuration held is reconciled and
\* validated; a new version manager is made over the same directory.
ConfigFileStates == {AbsentFile, MalformedFile, JsonFile(TwoTypeConfig), JsonFile(MixedConfig)}

NextConfigFile ==
    \/ TrackedCall /\ \E file \in ConfigFileStates : LoadConfigFile(file)
    \/ TrackedCall /\ Reconcile
    \/ TrackedCall /\ Validate
    \/ NoCallMade /\ NewVersionManager
    \/ NoCallMade /\ Tick

SpecConfigFile == Init /\ [][NextConfigFile]_vars

\* C25: load_config returns true and holds the parsed document when the
\* file exists and parses; when the file is absent or malformed it returns
\* false and holds the built-in default (one mock parser artifact d/v1),
\* which the lookups find, validate_config accepts and a reconcile made next
\* registers or finds registered.
C25_LoadFallsBack ==
    [][/\ \A file \in ConfigFileStates : CallStep("load_config", <<file>>) =>
            IF ~IsNone(file) /\ ~IsNone(Val(file).parses_to)
            THEN /\ ret'[Main].res = TRUE
                 /\ configData' = Val(Val(file).parses_to)
            ELSE /\ ret'[Main].res = FALSE
                 /\ configData' = DefaultConfig
                 /\ DeclaredKeys(configData'.model_definitions) = {KeyOf(ParserV1)}
                 /\ get_version_definition(configData', TASK_PARSER, NameD, V1) = Some([model_source |-> "mock", memory_requirement_mb |-> MockMemoryMb, config |-> [max_length |-> Num(512), temperature |-> Num(7)]])
                 /\ validate_config(configData') = << >>
       /\ (CallStep("initialize_models_from_config", << >>) /\ ret[Main].op = "load_config" /\ ~ret[Main].res) =>
            /\ DOMAIN ret'[Main].res = {KeyOf(ParserV1)}
            /\ ret'[Main].res[KeyOf(ParserV1)]
            /\ Registered(ParserV1)']_vars

\* A document was loaded and reconciled, then the file was malformed at the
\* reload and the default configuration was reconciled.
C25_Witness ==
    /\ ret[Main].op = "initialize_models_from_config"
    /\ prev.op = "load_config"
    /\ prev.args = <<MalformedFile>>
    /\ prev.res = FALSE
    /\ configData = DefaultConfig
    /\ Registered(ParserV2)
    /\ Registered(ParserV1)
    /\ ret[Main].res[KeyOf(ParserV1)]

-----------------------------------------------------------------------------
(* Building a ModelConfig from the configuration document *)

\* Global settings: none; a temperature, a top_p and a name; a top_p out of
\* range.
BuildGlobals ==
    {EmptyDict,
     [temperature |-> Num(3), top_p |-> Num(8), name |-> <<"g">>],
     [top_p |-> Num(15)]}

\* A document declaring the parser d with a version overriding the
\* temperature, one without a config block, one with a temperature out of
\* range and one with an empty definition.
BuildDoc(global_config) ==
    [model_definitions |->
        <<[type |-> TASK_PARSER,
           models |-> <<[name |-> NameD,
                         versions |-> <<[version |-> V1,
                                         def |-> [model_source |-> "mock",
                                                  memory_requirement_mb |-> MockMemoryMb,
                                                  config |-> [temperature |-> Num(5), name |-> <<"c">>]]],
                                        [version |-> V2,
                                         def |-> [model_source |-> "mock"]],
                                        [version |-> V10,
                                         def |-> [model_source |-> "mock", config |-> CfgHot]],
                                        [version |-> VY,
                                         def |-> EmptyDict]>>,
                         default_version |-> V1]>>]>>,
     global_config |-> global_config]

ParserVY == <<TASK_PARSER, NameD, VY>>
BuildArts == {ParserV1, ParserV2, ParserV10, ParserVY, PrioV1}

NextBuild ==
    \/ TrackedCall /\ \E g \in BuildGlobals : LoadConfig(BuildDoc(g))
    \/ TrackedCall /\ \E a \in BuildArts : CreateModelConfig(a)

SpecBuild == Init /\ [][NextBuild]_vars

\* C26 (as claimed): create_model_config takes every setting from the
\* version's config block if it is there, else from global_config, else the
\* default of ModelConfig; the identity fields are the requested type, name
\* and version whatever the two blocks say; the result is absent when the
\* version is not declared or the merged values fail validation (and only
\* then).
C26_BuildPrecedence ==
    [][\A a \in BuildArts : CallStep("create_model_config", <<a>>) =>
        LET vd == get_version_definition(configData, a[1], a[2], a[3])
            vcfg == IF ~IsNone(vd) /\ "config" \in DOMAIN Val(vd) THEN Val(vd).config ELSE EmptyDict
            g == configData.global_config
            Setting(k, default) == IF k \in DOMAIN vcfg THEN vcfg[k] ELSE IF k \in DOMAIN g THEN g[k] ELSE Num(default)
            t == Setting("temperature", DefaultTemperature)
            p == Setting("top_p", DefaultTopP)
            valid == IsFloat(t) /\ IsFloat(p) /\ validate_temperature(t.items[1]) /\ validate_top_p(p.items[1])
        IN  IF IsNone(vd) \/ ~valid
            THEN ret'[Main].res = None
            ELSE ret'[Main].res = Some([model_type |-> a[1], name |-> a[2], version |-> a[3], temperature |-> t.items[1], top_p |-> p.items[1]])]_vars

\* A config was built whose temperature is the version's, whose top_p is
\* the global one and whose name is the requested one although both blocks
\* give a name.
C26_Witness ==
    /\ ret[Main].op = "create_model_config"
    /\ ret[Main].args = <<ParserV1>>
    /\ "name" \in DOMAIN configData.global_config
    /\ ret[Main].res = Some([model_type |-> TASK_PARSER, name |-> NameD, version |-> V1, temperature |-> 5, top_p |-> 8])

-----------------------------------------------------------------------------
(* The frame of delete_model_version and update_model_status *)

\* The index entry of an artifact, None where its type's index has no entry
\* under its key.
IndexEntry(a) ==
    IF OdHas(registry[a[1]], RegistryKey(a[2], a[3])) THEN Some(OdGet(registry[a[1]], RegistryKey(a[2], a[3]))) ELSE None

\* What is stored for an artifact: its metadata.json, its index entry and
\* its files.
StoredFor(a) == <<metaFile[a], IndexEntry(a), artFile[ExtPath(a)], artFile[MockPath(a)]>>

Listed(a) == \E i \in 1 .. Len(list_versions(VM, a[1], a[2])) : list_versions(VM, a[1], a[2])[i] = a[3]

\* C27 (as claimed): delete_model_version on a registered version returns
\* true, and afterwards the index has no entry for it, its directory is
\* gone, get_model_metadata answers None for it and list_versions does not
\* list it, while what is stored for every other registered version is
\* untouched; on a version without an index entry it returns false and
\* changes nothing.
C27_DeleteFrame ==
    [][\A a \in StoreArts : CallStep("delete_model_version", <<a>>) =>
        /\ Registered(a) =>
            /\ ret'[Main].res = TRUE
            /\ IsNone(IndexEntry(a)')
            /\ ~DirExists(VM, a)'
            /\ IsNone(MetadataOf(a)')
            /\ ~Listed(a)'
            /\ \A b \in AllArts \ {a} : Registered(b) => StoredFor(b)' = StoredFor(b)
        /\ IsNone(IndexEntry(a)) =>
            /\ ret'[Main].res = FALSE
            /\ vmVars' = vmVars]_vars

\* One of three registered versions of the parser d was deleted: it is gone
\* and the other two are stored and listed as before.
C27_Witness ==
    /\ ret[Main].op = "delete_model_version"
    /\ ret[Main].args = <<ParserV2>>
    /\ ret[Main].res = TRUE
    /\ ~Registered(ParserV2)
    /\ IsNone(IndexEntry(ParserV2))
    /\ Registered(ParserV1) /\ ~IsNone(IndexEntry(ParserV1))
    /\ Registered(ParserV10) /\ ~IsNone(IndexEntry(ParserV10))
    /\ list_versions(VM, TASK_PARSER, NameD) = <<V10, V1>>

\* A parser and a prioritizer d/v1 are registered (once each), their status
\* is updated and their metadata read while time passes; a new version
\* manager is made over the same directory.
StatusArts == {ParserV1, PrioV1}

NextStatus ==
    \/ Call /\ \E a \in StatusArts : IsNone(metaFile[a]) /\ RegisterFromFile(a, CfgOk)
    \/ Call /\ \E a \in StatusArts, status \in {DEPRECATED, ERROR} : UpdateStatus(a, status)
    \/ Call /\ \E a \in StatusArts : GetMetadata(a)
    \/ NoCallMade /\ NewVersionManager
    \/ NoCallMade /\ Tick

SpecStatus == Init /\ [][NextStatus]_vars

\* The fields of a record other than status and updated_at
OtherFields(md) == [k \in DOMAIN md \ {"status", "updated_at"} |-> md[k]]

\* C28 (as claimed): update_model_status on a registered version returns
\* true, and afterwards get_model_metadata, metadata.json and the index
\* entry show the new status, only status and updated_at of the metadata
\* have changed, and every other artifact is as before; on a version with no
\* metadata it returns false and changes nothing.
C28_StatusFrame ==
    [][\A a \in StatusArts, status \in {DEPRECATED, ERROR} : (calls' = calls + 1 /\ CallStep("update_model_status", <<a, status>>)) =>
        /\ Registered(a) =>
            /\ ret'[Main].res = TRUE
            /\ ~IsNone(MetadataOf(a)') /\ Val(MetadataOf(a)').status = status
            /\ ~IsNone(metaFile'[a]) /\ Val(metaFile'[a]).status = status
            /\ ~IsNone(IndexEntry(a)') /\ Val(IndexEntry(a)').status = status
            /\ OtherFields(Val(metaFile'[a])) = OtherFields(Val(metaFile[a]))
            /\ OtherFields(Val(IndexEntry(a)')) = OtherFields(Val(IndexEntry(a)))
            /\ \A b \in AllArts \ {a} : Registered(b) => StoredFor(b)' = StoredFor(b) /\ MetadataOf(b)' = MetadataOf(b)
        /\ ~Registered(a) =>
            /\ ret'[Main].res = FALSE
            /\ vmVars' = vmVars]_vars

\* The status of the registered parser was updated after time had passed,
\* with no prioritizer registered: the new status and time are in the
\* metadata answered, in metadata.json and in the index.
C28_Witness ==
    /\ ret[Main].op = "update_model_status"
    /\ ret[Main].args = <<ParserV1, DEPRECATED>>
    /\ ret[Main].res = TRUE
    /\ ~Registered(PrioV1)
    /\ clock > 0
    /\ StatusOf(ParserV1) = DEPRECATED
    /\ Val(metaFile[ParserV1]).status = DEPRECATED
    /\ FromIsoFormat(Val(metaFile[ParserV1]).updated_at) = clock
    /\ FromIsoFormat(Val(metaFile[ParserV1]).created_at) = 0
    /\ Val(IndexEntry(ParserV1)).status = DEPRECATED

-----------------------------------------------------------------------------
(* Termination of load_model and release of the per-key lock *)

\* Every thread that can take a step of its load_model call eventually
\* takes one: the threads of the service are scheduled by the interpreter,
\* which lets none of them wait forever while it can run.  Every step of
\* the call moves the thread, so the steps are told by pc.
FairLoad == \A t \in Threads : WF_pc(LoadStep(t))

SpecLoadFair == Init /\ [][NextLoad]_vars /\ FairLoad

\* The locks a thread holds
HeldBy(t) == {l \in DOMAIN lockHolder : lockHolder[l] = t}

\* C29: every load_model call eventually returns, whether it succeeds or
\* fails; a thread that has returned holds no lock; and a thread waiting
\* for the lock of its key eventually gets past the acquisition.
C29_LoadTerminates ==
    /\ [](\A t \in Threads : pc[t] \in {"idle", "return"} => HeldBy(t) = {})
    /\ \A t \in Threads : (pc[t] # "idle") ~> (pc[t] = "idle" /\ ret[t].op = "load_model")
    /\ \A t \in Threads : (pc[t] = "acquire") ~> (pc[t] = "recheck")

\* A thread waits for the lock of its key while another thread, inside
\* the load body, holds it.
C29_Witness ==
    \E t1, t2 \in Threads :
        /\ t1 # t2
        /\ pc[t1] = "acquire" /\ lockHolder[frame[t1].lock] = t2
        /\ InLoadBody(t2) /\ frame[t2].model_key = frame[t1].model_key

-----------------------------------------------------------------------------
(* Constructing a ModelVersionManager over a directory already in use *)

\* The registry files of the type directories, None where the file is
\* absent.  _load_registry reads an absent file as an empty registry, so
\* only a type without index entries can be without its file.
RegistryFiles(absent) == [mt \in ModelType |-> IF mt \in absent THEN None ELSE Some(registry[mt])]

\* _initialize_directory_structure writing an empty registry for every type
initialize_directory_structure_afresh(files) == [mt \in ModelType |-> Some(<< >>)]

\* _initialize_directory_structure: an empty registry where the file is absent
initialize_directory_structure(files) ==
    [mt \in ModelType |-> IF IsNone(files[mt]) THEN Some(<< >>) ELSE files[mt]]

\* ModelVersionManager(models_base_path) over the directory as it is, the
\* registry files of the types in absent missing: the directory structure
\* is initialized and the metadata cache starts empty.
ConstructVersionManager(absent) ==
    /\ AllIdle
    /\ \A mt \in absent : registry[mt] = << >>
    /\ LET files == initialize_directory_structure(RegistryFiles(absent))
       IN  registry' = [mt \in ModelType |-> Val(files[mt])]
    /\ cache' = EmptyDict
    /\ Returned("ModelVersionManager", <<absent>>, TRUE)
    /\ e2e' = 0
    /\ UNCHANGED <<procVars, peerCache, metaFile, artFile, mmVars, lockVars, configData, clock, pc, frame>>

RestartArts == {ParserV1, ParserV2, PrioV1}

NextRestart ==
    \/ Call /\ \E a \in RestartArts : IsNone(metaFile[a]) /\ RegisterFromFile(a, CfgOk)
    \/ Call /\ \E absent \in SUBSET ModelType : ConstructVersionManager(absent)
    \/ Call /\ \E mt \in {TASK_PARSER, PRIORITIZER} : ListVersions(mt, NameD)
    \/ Call /\ \E a \in RestartArts : GetMetadata(a)

SpecRestart == Init /\ [][NextRestart]_vars

\* C30: constructing a version manager over a directory in use leaves
\* every registry file that exists, every metadata.json and every artifact
\* file as it was and gives every type without a registry file an empty
\* one; constructing it again changes nothing more; and every registered
\* version that was listed is listed by the new instance, which answers
\* get_model_metadata for every registered version with its own record.
C30_InitIdempotent ==
    [][\A absent \in SUBSET ModelType : (calls' = calls + 1 /\ CallStep("ModelVersionManager", <<absent>>)) =>
        LET once == initialize_directory_structure(RegistryFiles(absent))
        IN  /\ ret'[Main].res = TRUE
            /\ \A mt \in ModelType : ~IsNone(once[mt]) /\ registry'[mt] = Val(once[mt])
            /\ \A mt \in ModelType \ absent : registry'[mt] = registry[mt]
            /\ \A mt \in absent : registry'[mt] = << >>
            /\ initialize_directory_structure(once) = once
            /\ metaFile' = metaFile /\ artFile' = artFile
            /\ \A mt \in ModelType : list_versions(VM, mt, NameD)' = list_versions(VM, mt, NameD)
            /\ \A a \in RestartArts : Registered(a) =>
                /\ Listed(a) => Listed(a)'
                /\ ~IsNone(MetadataOf(a)')
                /\ <<Val(MetadataOf(a)').model_type, Val(MetadataOf(a)').name, Val(MetadataOf(a)').version>> = a
                /\ MetadataOf(a)' = LoadMetadata(Val(metaFile[a]))]_vars

\* A version manager has just been constructed over a directory holding
\* two parser versions, listed and cached by the instance before it, and
\* no registry file for the insights type.
C30_Witness ==
    /\ ret[Main].op = "ModelVersionManager" /\ ret[Main].args = <<{INSIGHTS}>>
    /\ Registered(ParserV1) /\ Registered(ParserV2)
    /\ Listed(ParserV1) /\ Listed(ParserV2)
    /\ cache = EmptyDict
    /\ calls >= 3

-----------------------------------------------------------------------------
(* The record get_model_metadata answers with *)

IdentityOf(md) == <<md.model_type, md.name, md.version>>

\* C31 (as claimed): get_model_metadata answers None or a record whose
\* model_type, name and version are the requested ones, also when the same
\* name and version are registered under two types.
C31_OwnRecord ==
    [][\A a \in StatusArts : (calls' = calls + 1 /\ CallStep("get_model_metadata", <<a>>)) =>
        (IsNone(ret'[Main].res) \/ IdentityOf(Val(ret'[Main].res)) = a)]_vars

\* default/v1 is registered as parser and as prioritizer, and the
\* prioritizer's metadata has just been asked for and answered.
C31_Witness ==
    /\ Registered(ParserV1) /\ Registered(PrioV1)
    /\ ret[Main].op = "get_model_metadata" /\ ret[Main].args = <<PrioV1>>
    /\ ~IsNone(ret[Main].res)

-----------------------------------------------------------------------------
(* What a true of initialize_models_from_config stands for *)

\* C32 (as claimed): every key initialize_models_from_config answers true
\* for is registered once the call has returned: the index of its type has
\* its name:version and its metadata.json exists.
C32_TrueMeansRegistered ==
    [][(calls' = calls + 1 /\ CallStep("initialize_models_from_config", << >>)) =>
        \A a \in AllArts :
            (KeyOf(a) \in DOMAIN ret'[Main].res /\ ret'[Main].res[KeyOf(a)]) =>
                /\ ~IsNone(metaFile'[a])
                /\ ~IsNone(IndexEntry(a)')]_vars

\* A reconcile of the document declaring default/v1 under two types has
\* returned and answered true for the parser, which it registered.
C32_Witness ==
    /\ ret[Main].op = "initialize_models_from_config"
    /\ configData = TwoTypeConfig
    /\ KeyOf(ParserV1) \in DOMAIN ret[Main].res /\ ret[Main].res[KeyOf(ParserV1)]
    /\ KeyOf(PrioV1) \in DOMAIN ret[Main].res
    /\ Registered(ParserV1) /\ ~IsNone(IndexEntry(ParserV1))

-----------------------------------------------------------------------------
(* load_model and unload_model of one key by two threads *)

\* A thread calls unload_model while other threads may be inside their
\* calls: unload_model takes no lock.  The call is taken in one piece.
UnloadBy(t, a) ==
    /\ pc[t] = "idle"
    /\ LET done == unload_model(a[1], a[2], a[3])
       IN  /\ ret' = [ret EXCEPT ![t] = [op |-> "unload_model", args |-> <<a>>, res |-> done.res]]
           /\ loadedModels' = done.loaded
           /\ modelConfigs' = done.configs
           /\ loadTimes' = done.times
           /\ inferenceStats' = done.stats
           /\ recorded' = StillKept(recorded, done.stats)
    /\ e2e' = 0
    /\ UNCHANGED <<lruCache, metrics, asked, vmVars, lockVars, configData, clock, pc, frame>>

Unloader == Main + 1

\* The parser is registered, then one thread loads it while another
\* unloads it (the unload calls are the calls counted).
NextLoadUnload ==
    \/ NoCallMade /\ NoLoadYet /\ IsNone(metaFile[ParserV1]) /\ RegisterFromFile(ParserV1, CfgOk)
    \/ NoCallMade /\ Registered(ParserV1) /\ LoadCall(Main, TASK_PARSER, NameD, Some(V1))
    \/ NoCallMade /\ LoadStep(Main)
    \/ Call /\ UnloadBy(Unloader, ParserV1)

SpecLoadUnload == Init /\ [][NextLoadUnload]_vars

\* C33 (as claimed): once every call has returned, the loaded table, the
\* config table and the load-time table hold the same keys.
C33_TablesAgree ==
    AllIdle =>
        /\ DOMAIN modelConfigs = DOMAIN loadedModels
        /\ DOMAIN loadTimes = DOMAIN loadedModels

\* A load and an unload of the parser have both returned true and the
\* three tables hold its key.
C33_Witness ==
    /\ AllIdle
    /\ ret[Main].op = "load_model" /\ ret[Main].res = TRUE
    /\ ret[Unloader].op = "unload_model" /\ ret[Unloader].res = TRUE
    /\ DOMAIN loadedModels = {KeyOf(ParserV1)}
    /\ DOMAIN modelConfigs = {KeyOf(ParserV1)}
    /\ DOMAIN loadTimes = {KeyOf(ParserV1)}

-----------------------------------------------------------------------------
(* Latency samples after the last unload *)

\* C34 (as claimed): when an unload has removed the last loaded artifact,
\* get_performance_stats has no entries, whatever calls were made before,
\* with or without a version.
C34_NoSamplesLeft ==
    (AllIdle /\ ret[Main].op = "unload_model" /\ ret[Main].res = TRUE /\ loadedModels = EmptyDict) =>
        DOMAIN get_performance_stats = {}

\* The parser was used by a call that omitted the version and recorded a
\* sample, and was then unloaded, the only artifact loaded.
C34_Witness ==
    /\ AllIdle /\ ret[Main].op = "unload_model" /\ ret[Main].args = <<ParserV1>> /\ ret[Main].res = TRUE
    /\ loadedModels = EmptyDict
    /\ prev.op = ProcessParsing
    /\ IsNone(prev.args[1].version)
    /\ prev.res.kind = "result"

-----------------------------------------------------------------------------
(* Loading a deprecated artifact *)

\* The parser is registered, deprecated, loaded and unloaded, one call at
\* a time; a load remembers the call made before it.
NextDeprecated ==
    \/ Call /\ \E c \in MainConfigs : IsNone(metaFile[ParserV1]) /\ RegisterFromFile(ParserV1, c)
    \/ Call /\ UpdateStatus(ParserV1, DEPRECATED)
    \/ TrackedCall /\ LoadCall(Main, TASK_PARSER, NameD, Some(V1))
    \/ NoCallMade /\ LoadStep(Main)
    \/ Call /\ Unload(ParserV1)
    \/ NoCallMade /\ Tick

SpecDeprecated == Init /\ [][NextDeprecated]_vars

\* The last call was a load of the parser, made right after the parser
\* had been set to DEPRECATED.
LoadedWhenDeprecated ==
    /\ AllIdle
    /\ ret[Main].op = "load_model"
    /\ prev.op = "update_model_status" /\ prev.args = <<ParserV1, DEPRECATED>> /\ prev.res = TRUE

\* C35 (as claimed): after a load of a DEPRECATED artifact whose file is
\* intact, whether the load returned true or false, the artifact is still
\* DEPRECATED for the version manager.
C35_DeprecatedKept ==
    (LoadedWhenDeprecated /\ IntegrityOk(ParserV1)) =>
        /\ ~IsNone(MetadataOf(ParserV1))
        /\ StatusOf(ParserV1) = DEPRECATED

\* The parser was loaded, then deprecated, then loaded again: the second
\* load returned true at once and the parser is still DEPRECATED.
C35_Witness ==
    /\ LoadedWhenDeprecated /\ IntegrityOk(ParserV1)
    /\ ret[Main].res = TRUE
    /\ Loaded(ParserV1)
    /\ StatusOf(ParserV1) = DEPRECATED

-----------------------------------------------------------------------------
(* The identity of the ModelConfig get_model_config makes *)

\* Stored config maps: settings only, and maps that name a model, a
\* version or a type of their own.
CfgNamed == [temperature |-> Num(5), name |-> Str(<<"c">>)]
CfgRetyped == [model_type |-> Str(PRIORITIZER), version |-> Str(V2)]
StoredConfigs == {CfgEmpty, CfgOk, CfgHot, CfgNamed, CfgRetyped}

\* A configuration document declaring the artifact with the config map
DocDeclaring(a, config) ==
    [model_definitions |->
        <<[type |-> a[1],
           models |-> <<[name |-> a[2],
                         versions |-> <<[version |-> a[3],
                                         def |-> [model_source |-> "mock", config |-> config]]>>,
                         default_version |-> a[3]]>>]>>,
     global_config |-> EmptyDict]

\* The parser is registered with one of the config maps and its config is
\* asked for, from the instance that registered it or from a new one.
NextGetConfig ==
    \/ Call /\ \E c \in StoredConfigs : IsNone(metaFile[ParserV1]) /\ RegisterFromFile(ParserV1, c)
    \/ Call /\ DeleteVersion(ParserV1)
    \/ Call /\ GetModelConfig(ParserV1)
    \/ NoCallMade /\ NewVersionManager
    \/ NoCallMade /\ Tick

SpecGetConfig == Init /\ [][NextGetConfig]_vars

\* C36 (as claimed): the ModelConfig get_model_config returns has the
\* requested type, name and version whatever the stored config map holds,
\* as has the one create_model_config builds from a document declaring
\* the artifact with that map.
C36_ConfigIdentity ==
    [][(calls' = calls + 1 /\ CallStep("get_model_config", <<ParserV1>>) /\ ~IsNone(ret'[Main].res)) =>
        LET built == create_model_config(DocDeclaring(ParserV1, Val(metaFile[ParserV1]).config), ParserV1[1], ParserV1[2], ParserV1[3])
        IN  /\ IdentityOf(Val(ret'[Main].res)) = ParserV1
            /\ ~IsNone(built)
            /\ IdentityOf(Val(built)) = IdentityOf(Val(ret'[Main].res))]_vars

\* The config of the parser was asked for and given, the parser having
\* been registered with a config map that names a model of its own.
C36_Witness ==
    /\ ret[Main].op = "get_model_config" /\ ret[Main].args = <<ParserV1>>
    /\ ~IsNone(ret[Main].res)
    /\ Registered(ParserV1) /\ Val(metaFile[ParserV1]).config = CfgNamed

-----------------------------------------------------------------------------
(* Loaded keys and the artifacts registered *)

\* The parser is registered, loaded, unloaded and deleted through the
\* managers, one call at a time.
NextLoadDelete ==
    \/ Call /\ IsNone(metaFile[ParserV1]) /\ RegisterFromFile(ParserV1, CfgOk)
    \/ Call /\ LoadCall(Main, TASK_PARSER, NameD, Some(V1))
    \/ NoCallMade /\ LoadStep(Main)
    \/ Call /\ Unload(ParserV1)
    \/ Call /\ DeleteVersion(ParserV1)

SpecLoadDelete == Init /\ [][NextLoadDelete]_vars

\* C37 (as claimed): every loaded key is the key of an artifact that has
\* its metadata.json and its entry in the index of its type.
C37_LoadedIsRegistered ==
    \A a \in AllArts : Loaded(a) => (Registered(a) /\ ~IsNone(IndexEntry(a)))

\* The parser is registered and a load of it has returned true.
C37_Witness ==
    /\ AllIdle /\ ret[Main].op = "load_model" /\ ret[Main].res = TRUE
    /\ Loaded(ParserV1) /\ Registered(ParserV1) /\ ~IsNone(IndexEntry(ParserV1))

-----------------------------------------------------------------------------
(* Names and versions that contain the separator of the index key *)

\* C38 (as claimed): list_versions returns exactly the versions of the
\* name that are registered, also for names and versions with a ":" in
\* them, and two different registered artifacts of one type never have
\* the same index key.
C38_SeparatorSafe ==
    /\ ret[Main].op = "list_versions" =>
        {ret[Main].res[i] : i \in DOMAIN ret[Main].res} = RegisteredVersions(ret[Main].args[1], ret[Main].args[2])
    /\ \A a, b \in StoreArts :
        (a # b /\ a[1] = b[1] /\ Registered(a) /\ Registered(b)) => RegistryKey(a[2], a[3]) # RegistryKey(b[2], b[3])

\* The versions of d were listed with v1 and the version x:y registered,
\* and both were returned.
C38_Witness ==
    /\ ret[Main].op = "list_versions" /\ ret[Main].args = <<TASK_PARSER, NameD>>
    /\ RegisteredVersions(TASK_PARSER, NameD) = {V1, VXY}
    /\ {ret[Main].res[i] : i \in DOMAIN ret[Main].res} = {V1, VXY}

-----------------------------------------------------------------------------
(* Fallback results in the result cache *)

\* The parser is asked for one text more than its cache holds, the
\* analyzer failing or not, and the cache is cleared at any time.
NextFallback ==
    \/ Call /\ \E x \in 1 .. CacheSize + 1, r \in BOOLEAN : Process(ProcessParsing, ArgsOf(x, None, None), r)
    \/ NoCallMade /\ CacheClear(ProcessParsing)

SpecFallback == Init /\ [][NextFallback]_vars

\* C39: a fallback result returned because the analyzer failed is stored
\* in the cache of the entry point under the arguments of the call; while
\* it is stored (it leaves only by eviction or cache_clear) a call with
\* the same arguments is a hit that returns this fallback, does not run
\* the analyzer and records neither a latency sample nor a telemetry
\* event; once it is gone the call is a miss that runs the body again.
C39_FallbackCached ==
    [][(ProcessStep /\ ret'[Main].op = ProcessParsing) =>
        LET c == lruCache[ProcessParsing]
            args == ret'[Main].args[1]
        IN  /\ FailureInStep =>
                /\ ret'[Main].res.kind = "fallback"
                /\ IsCached(lruCache'[ProcessParsing], args)
                /\ CachedValue(lruCache'[ProcessParsing], args) = ret'[Main].res
            /\ (IsCached(c, args) /\ CachedValue(c, args).kind = "fallback") =>
                /\ ret'[Main].res = CachedValue(c, args)
                /\ ret'[Main].args[2] = FALSE
                /\ lruCache'[ProcessParsing].hits = c.hits + 1
                /\ lruCache'[ProcessParsing].misses = c.misses
                /\ inferenceStats' = inferenceStats
                /\ metrics' = metrics
                /\ CachedValue(lruCache'[ProcessParsing], args) = CachedValue(c, args)
            /\ ~IsCached(c, args) =>
                /\ lruCache'[ProcessParsing].misses = c.misses + 1
                /\ Len(metrics') = Len(metrics) + 1]_vars

\* The analyzer failed for a text, and the same text asked again was
\* answered with the stored fallback: one miss, one hit, one error event.
C39_Witness ==
    /\ ret[Main].op = ProcessParsing
    /\ ret[Main].args[2] = FALSE
    /\ ret[Main].res.kind = "fallback"
    /\ asked[ProcessParsing] = <<ret[Main].args[1], ret[Main].args[1]>>
    /\ lruCache[ProcessParsing].hits = 1 /\ lruCache[ProcessParsing].misses = 1
    /\ Len(metrics) = 1 /\ metrics[1].status = "error"
    /\ inferenceStats = EmptyDict

-----------------------------------------------------------------------------
(* Two version managers over one base path *)

\* The second ModelVersionManager: the same files, its own metadata cache
PeerVM == [meta |-> metaFile, reg |-> registry, files |-> artFile, cache |-> peerCache]

SetPeerVM(s) ==
    /\ metaFile' = s.meta
    /\ registry' = s.reg
    /\ artFile' = s.files
    /\ peerCache' = s.cache
    /\ cache' = cache

PeerUpdateStatus(a, status) ==
    /\ AllIdle
    /\ LET done == update_model_status(PeerVM, a[1], a[2], a[3], status, clock)
       IN  Returned("peer.update_model_status", <<a, status>>, done.res) /\ SetPeerVM(done.st)
    /\ e2e' = 0
    /\ UNCHANGED <<procVars, mmVars, lockVars, configData, clock, pc, frame>>

PeerDeleteVersion(a) ==
    /\ AllIdle
    /\ LET done == delete_model_version(PeerVM, a[1], a[2], a[3])
       IN  Returned("peer.delete_model_version", <<a>>, done.res) /\ SetPeerVM(done.st)
    /\ e2e' = 0
    /\ UNCHANGED <<procVars, mmVars, lockVars, configData, clock, pc, frame>>

PeerGetMetadata(a) ==
    /\ AllIdle
    /\ LET done == get_model_metadata(PeerVM, a[1], a[2], a[3])
       IN  Returned("peer.get_model_metadata", <<a>>, done.res) /\ SetPeerVM(done.st)
    /\ e2e' = 0
    /\ UNCHANGED <<procVars, mmVars, lockVars, configData, clock, pc, frame>>

\* The parser d/v1 is registered through the manager of the ModelManager;
\* its status is updated, it is deleted and its metadata is read through
\* either manager.
NextPeers ==
    \/ Call /\ IsNone(metaFile[ParserV1]) /\ RegisterFromFile(ParserV1, CfgOk)
    \/ Call /\ \E status \in {DEPRECATED, ERROR} : UpdateStatus(ParserV1, status)
    \/ Call /\ \E status \in {DEPRECATED, ERROR} : PeerUpdateStatus(ParserV1, status)
    \/ Call /\ DeleteVersion(ParserV1)
    \/ Call /\ PeerDeleteVersion(ParserV1)
    \/ Call /\ GetMetadata(ParserV1)
    \/ Call /\ PeerGetMetadata(ParserV1)

SpecPeers == Init /\ [][NextPeers]_vars

\* C40 (as claimed): get_model_metadata through either manager returns no
\* record for a version whose metadata.json is gone, and a record it
\* returns has the status stored in metadata.json, whichever manager made
\* the last status update or the deletion.
C40_PeersAgree ==
    \A a \in AllArts :
        (ret[Main].op \in {"get_model_metadata", "peer.get_model_metadata"} /\ ret[Main].args = <<a>> /\ ~IsNone(ret[Main].res)) =>
            /\ Registered(a)
            /\ Val(ret[Main].res).status = Val(LoadMetadata(Val(metaFile[a]))).status

\* The status was set through one manager and read through the other,
\* which had not read the record before: it answers from the file.
C40_Witness ==
    /\ ret[Main].op = "peer.get_model_metadata" /\ ret[Main].args = <<ParserV1>>
    /\ ~IsNone(ret[Main].res) /\ Val(ret[Main].res).status = DEPRECATED
    /\ Registered(ParserV1) /\ Val(LoadMetadata(Val(metaFile[ParserV1]))).status = DEPRECATED
    /\ calls = 3

====
